---- MODULE Spec2Model ----
(***************************************************************************)
(* Model of the scraping pipeline of Web-Scraping-Python-Project:          *)
(*   - get_html (task1_dawn.py / task2_PSX.py): GET with bounded retries   *)
(*   - parse_dawn_articles and collect_dawn_headlines (task1_dawn.py)      *)
(*   - _pick_indices_table (task2_PSX.py)                                  *)
(*   - _to_float, _to_percent (task2_PSX.py), parse_int, parse_float       *)
(*     (task5_GoodReads.py)                                                *)
(*   - parse_results_page_html, scrape_daraz_from_home (task4_Daraz.py)    *)
(*   - collect_mainboard_from_market_summary, collect_indices_from_dps     *)
(*     (task2_PSX.py)                                                      *)
(*   - fetch_country, fill_countries_parallel, __main__ (task3_QSWR.py)    *)
(*   - scrape_article_unis (task3_QSWR.py), scrape_goodreads               *)
(*     (task5_GoodReads.py): the driver, the attempts per book             *)
(*   - ensure_columns, export_docx_table, export_pdf_table                 *)
(*     (export_task2_reports.py), export_task4_pdf                         *)
(*     (export_task4_reports.py) on frames read back from CSV              *)
(* Sleeps (backoff and jitter) take time only and are not modelled.        *)
(***************************************************************************)
EXTENDS Integers, Sequences, FiniteSets, TLC

\* ------------------------------------------------------------------ bounds
MaxN == 3          \* largest target count n passed to collect_dawn_headlines
MaxRetries == 3    \* largest `retries` argument tried on get_html alone
MaxUrl == 2        \* number of distinct article ids a generated page may list
MaxPageLen == 2    \* anchors on a page served to the collector
MaxAnchors == 3    \* anchors on a page given to parse_dawn_articles alone
MaxTables == 2     \* candidate tables handed to _pick_indices_table
MaxCols == 2       \* header labels of a generated candidate table
MaxStrLen == 3
MaxNMin == 2
MaxCards == 2
MaxMbTables == 2
MaxMbRows == 1
MaxIdxCols == 3
MaxIdxRows == 1
MaxUnis == 3
\* The pool size (12 in the source), scaled to the number of rows so that
\* submitted fetches can be queued behind running ones.
MAX_WORKERS == 2
MaxLinks == 2       \* links collected for a genre (books_per_genre is 12)
MaxExpCols == 3    \* columns of a frame given to ensure_columns alone
MaxExpRows == 1    \* rows of a frame given to ensure_columns or an exporter

\* --------------------------------------------------------- program constants
DefaultRetries == 3
MinHeadlineLen == 5
BASE_URLS == <<"https://www.dawn.com", "https://www.dawn.com/latest-news">>
RetryStatuses == {403, 429, 502, 503, 504}

VARIABLES
  \* get_html
  retries, attempt, gets, last_err, resp, fpc, html,
  \* collect_dawn_headlines
  n, idx, pc, collected, origin, called, warned, df, cres,
  \* parse_dawn_articles on its own
  p_html, p_rows, p_unique, p_pc,
  \* _pick_indices_table on its own
  tables, picked, k_pc,
  \* _to_float, _to_percent, parse_int, parse_float
  c_text, c_fn, c_out,
  \* scrape_daraz_from_home
  z_nmin, z_page, z_html, z_items, z_rows, z_seen, z_skipped, z_pc, z_df,
  z_driver, z_res, z_parsed, z_moved,
  \* collect_mainboard_from_market_summary
  mb_tables, mb_df, mb_pc,
  \* collect_indices_from_dps
  x_raw, x_asof, x_df, x_pc,
  \* fill_countries_parallel and the __main__ of task3_QSWR.py
  q_rows, q_fut, q_yielded, q_now, q_pc, q_df,
  \* scrape_goodreads
  g_pc, g_genre, g_links, g_book, g_attempt, g_bound, g_row, g_rows,
  g_driver, g_res, g_why,
  \* scrape_article_unis
  a_pc, a_driver, a_res,
  \* ensure_columns and the exporters
  e_fn, e_df, e_cols, e_out, e_again, e_pc

fetchVars == <<retries, attempt, gets, last_err, resp, fpc, html>>
collectVars == <<n, idx, pc, collected, origin, called, warned, df, cres>>
parseVars == <<p_html, p_rows, p_unique, p_pc>>
pickVars == <<tables, picked, k_pc>>
coerceVars == <<c_text, c_fn, c_out>>
darazVars ==
  <<z_nmin, z_page, z_html, z_items, z_rows, z_seen, z_skipped, z_pc, z_df,
    z_driver, z_res, z_parsed, z_moved>>
mbVars == <<mb_tables, mb_df, mb_pc>>
idxVars == <<x_raw, x_asof, x_df, x_pc>>
qsVars == <<q_rows, q_fut, q_yielded, q_now, q_pc, q_df>>
grVars ==
  <<g_pc, g_genre, g_links, g_book, g_attempt, g_bound, g_row, g_rows,
    g_driver, g_res, g_why>>
artVars == <<a_pc, a_driver, a_res>>
expVars == <<e_fn, e_df, e_cols, e_out, e_again, e_pc>>
lastVars == <<grVars, artVars, expVars>>
laterVars == <<coerceVars, darazVars, mbVars, idxVars, qsVars, lastVars>>
vars == <<fetchVars, collectVars, parseVars, pickVars, laterVars>>

\* ------------------------------------------------------------ small helpers
Min(a, b) == IF a < b THEN a ELSE b

SeqsUpTo(S, m) == UNION {[1..l -> S] : l \in 0..m}

\* ------------------------------------------------------- pages and anchors
\* An href either contains "/news/" (relative or absolute form of article id)
\* or does not ("other").
Hrefs == [kind : {"rel", "abs"}, id : 1..MaxUrl] \cup {[kind |-> "other", id |-> 0]}

\* Anchor texts: a normal title, a title carrying the "Image:" marker, and a
\* text shorter than five characters.
Texts ==
  { [image |-> FALSE, words |-> "Budget passed"],
    [image |-> TRUE,  words |-> "PM visits Karachi"],
    [image |-> FALSE, words |-> "Live"] }

TextLen(w) ==
  CASE w = "Budget passed" -> 13
    [] w = "PM visits Karachi" -> 17
    [] w = "Live" -> 4
    [] OTHER -> 0

Anchors == [href : Hrefs, text : Texts]

GoodMarkup(as) == [ok |-> TRUE, anchors |-> as]

\* Markup on which the HTML parser itself raises (e.g. RecursionError).
BadMarkup == [ok |-> FALSE, anchors |-> <<>>]

NewsAnchor(u) ==
  [href |-> [kind |-> "rel", id |-> u],
   text |-> [image |-> FALSE, words |-> "Budget passed"]]

OtherAnchor ==
  [href |-> [kind |-> "other", id |-> 0],
   text |-> [image |-> FALSE, words |-> "Budget passed"]]

\* A page with five valid anchors for five different articles.
FiveRowPage == GoodMarkup([i \in 1..5 |-> NewsAnchor(i)])

\* What a server may answer with status 200.
Pages ==
  { GoodMarkup(as) :
      as \in SeqsUpTo({NewsAnchor(u) : u \in 1..MaxUrl} \cup {OtherAnchor}, MaxPageLen) }
  \cup {FiveRowPage, BadMarkup}

\* The body of a non-200 response (never returned by get_html).
ErrorBody == GoodMarkup(<<>>)

\* ---------------------------------------------------------------- get_html
Statuses == {200, 204, 404, 500} \cup RetryStatuses

NoErr == [kind |-> "None", status |-> 0]

HTTPError(s) == [kind |-> "HTTPError", status |-> s]

NetErr(k) == [kind |-> k, status |-> 0]

NoResp == [kind |-> "none", status |-> 0, body |-> ErrorBody]

HttpResp(s, b) == [kind |-> "http", status |-> s, body |-> b]

ExcResp(k) == [kind |-> k, status |-> 0, body |-> ErrorBody]

\* The responses requests.get may produce for one GET: a response with a
\* status, or a RequestException (timeout, connection failure).
Responses ==
  {HttpResp(200, b) : b \in Pages}
  \cup {HttpResp(s, ErrorBody) : s \in Statuses \ {200}}
  \cup {ExcResp(k) : k \in {"Timeout", "ConnectionError"}}

\* State of a fresh call get_html(url, retries = r).
FetchStart(r) ==
  /\ retries' = r
  /\ attempt' = 0
  /\ gets' = 0
  /\ last_err' = NoErr
  /\ resp' = NoResp
  /\ fpc' = "loop"
  /\ html' = ErrorBody

\* One iteration of the for loop of get_html, answered with r.
GetIteration(r) ==
  /\ gets' = gets + 1
  /\ resp' = r
  /\ IF r.kind = "http" /\ r.status = 200
       THEN /\ fpc' = "returned"
            /\ html' = r.body
            /\ UNCHANGED <<attempt, last_err>>
     ELSE IF r.kind = "http" /\ r.status \in RetryStatuses
       THEN \* sleep; continue
            /\ attempt' = attempt + 1
            /\ UNCHANGED <<fpc, html, last_err>>
     ELSE IF r.kind = "http" /\ r.status >= 400
       THEN \* raise_for_status raises HTTPError, caught by the except clause
            /\ last_err' = HTTPError(r.status)
            /\ attempt' = attempt + 1
            /\ UNCHANGED <<fpc, html>>
     ELSE IF r.kind = "http"
       THEN \* raise_for_status returns; the loop goes on
            /\ attempt' = attempt + 1
            /\ UNCHANGED <<fpc, html, last_err>>
       ELSE \* requests.get raised a RequestException
            /\ last_err' = NetErr(r.kind)
            /\ attempt' = attempt + 1
            /\ UNCHANGED <<fpc, html>>
  /\ UNCHANGED retries

\* A loop that runs one iteration too many.
MoreAttempts_OffByOne == attempt <= retries

\* for attempt in range(retries)
MoreAttempts == attempt < retries

GetAttempt ==
  /\ fpc = "loop"
  /\ MoreAttempts
  /\ \E r \in Responses : GetIteration(r)
  /\ UNCHANGED <<collectVars, parseVars, pickVars, laterVars>>

\* The loop is over without a return: raise RuntimeError.
GetExhausted ==
  /\ fpc = "loop"
  /\ ~MoreAttempts
  /\ fpc' = "raised"
  /\ UNCHANGED <<retries, attempt, gets, last_err, resp, html>>
  /\ UNCHANGED <<collectVars, parseVars, pickVars, laterVars>>

\* ----------------------------------------------------- parse_dawn_articles
\* urljoin(base, href): a relative and an absolute href of the same article
\* give the same absolute URL.
UrlJoin(href) == href.id

\* a.get_text(...).replace("Image:", "").strip()
Headline(text) == text.words

\* The loop over the selected anchors: rows in document order.
RECURSIVE ExtractRows(_)
ExtractRows(as) ==
  IF as = <<>> THEN <<>>
  ELSE LET a == Head(as)
           rest == ExtractRows(Tail(as))
       IN IF a.href.kind = "other" THEN rest
          ELSE IF TextLen(Headline(a.text)) < MinHeadlineLen THEN rest
          ELSE <<[headline |-> Headline(a.text), url |-> UrlJoin(a.href)]>> \o rest

\* A key-by-(url, headline) variant of the seen-set test.
SeenKey_WholeRow(row) == <<row.url, row.headline>>

\* The key put in the seen set.
SeenKey(row) == row.url

\* The seen-set loop, from row i on.
RECURSIVE DedupeFrom(_, _, _, _)
DedupeFrom(rows, i, seen, unique_rows) ==
  IF i > Len(rows) THEN unique_rows
  ELSE IF SeenKey(rows[i]) \notin seen
    THEN DedupeFrom(rows, i + 1, seen \cup {SeenKey(rows[i])}, Append(unique_rows, rows[i]))
    ELSE DedupeFrom(rows, i + 1, seen, unique_rows)

DedupeByUrl(rows) == DedupeFrom(rows, 1, {}, <<>>)

ParseDawnArticles(h) == DedupeByUrl(ExtractRows(h.anchors))

\* parse_dawn_articles applied to a page drawn at the start.
ParseStep ==
  /\ p_pc = "start"
  /\ p_rows' = ExtractRows(p_html.anchors)
  /\ p_unique' = DedupeByUrl(ExtractRows(p_html.anchors))
  /\ p_pc' = "done"
  /\ UNCHANGED <<p_html, fetchVars, collectVars, pickVars, laterVars>>

\* -------------------------------------------------- collect_dawn_headlines
\* Leave the loop body for endpoint idx: either the next endpoint (a new call
\* of get_html) or the code after the loop.
NextEndpoint(stop, buf) ==
  IF stop \/ idx = Len(BASE_URLS)
    THEN /\ pc' = "finalize"
         /\ UNCHANGED <<idx, called>>
         /\ UNCHANGED fetchVars
    ELSE /\ pc' = "loop"
         /\ idx' = idx + 1
         /\ called' = Append(called, [endpoint |-> idx + 1, buffered |-> Len(buf)])
         /\ FetchStart(DefaultRetries)

\* Whether the loop breaks after accumulating: len(collected) >= n.
BreakNow_Never(buf) == FALSE

BreakNow(buf) == Len(buf) >= n

\* get_html returned: parse, extend, test the count.
CollectOk ==
  /\ pc = "loop"
  /\ fpc = "returned"
  /\ IF html.ok
       THEN LET new == ParseDawnArticles(html)
                buf == collected \o new
            IN /\ collected' = buf
               /\ origin' = origin \o [i \in 1..Len(new) |-> idx]
               /\ warned' = warned
               /\ NextEndpoint(BreakNow(buf), buf)
       ELSE \* the parser raised: same except clause
            /\ warned' = Append(warned, idx)
            /\ UNCHANGED <<collected, origin>>
            /\ NextEndpoint(FALSE, collected)
  /\ UNCHANGED <<n, df, cres, parseVars, pickVars, laterVars>>

\* A handler that drops the buffer.
WarnKeeps_Reset(buf) == <<>>

\* The buffer after the except clause.
WarnKeeps(buf) == buf

\* get_html raised: the except clause prints a warning.
CollectWarn ==
  /\ pc = "loop"
  /\ fpc = "raised"
  /\ warned' = Append(warned, idx)
  /\ collected' = WarnKeeps(collected)
  /\ origin' = SubSeq(origin, 1, Len(WarnKeeps(collected)))
  /\ NextEndpoint(FALSE, collected)
  /\ UNCHANGED <<n, df, cres, parseVars, pickVars, laterVars>>

\* collected[:n]
Truncate_None(buf, m) == buf

Truncate(buf, m) == SubSeq(buf, 1, Min(m, Len(buf)))

\* A collector that raises on an empty buffer.
Outcome_RaiseOnEmpty(buf) == IF buf = <<>> THEN "raised" ELSE "returned"

\* How collect_dawn_headlines ends: it has no raise and returns df.
Outcome(buf) == "returned"

\* The code after the loop: build the DataFrame and return it.
Finalize ==
  /\ pc = "finalize"
  /\ cres' = Outcome(collected)
  /\ df' = IF Outcome(collected) = "returned"
             THEN [i \in 1..Len(Truncate(collected, n)) |->
                     [headline |-> Truncate(collected, n)[i].headline,
                      url |-> Truncate(collected, n)[i].url,
                      source |-> "dawn.com"]]
             ELSE <<>>
  /\ pc' = "done"
  /\ UNCHANGED <<n, idx, collected, origin, called, warned, fetchVars, parseVars, pickVars, laterVars>>

\* ----------------------------------------------------------- specifications
FetchIdle ==
  /\ retries = 0 /\ attempt = 0 /\ gets = 0 /\ last_err = NoErr
  /\ resp = NoResp /\ fpc = "idle" /\ html = ErrorBody

CollectIdle ==
  /\ n = 0 /\ idx = 0 /\ pc = "idle" /\ collected = <<>> /\ origin = <<>>
  /\ called = <<>> /\ warned = <<>> /\ df = <<>> /\ cres = "idle"

ParseIdle == p_html = ErrorBody /\ p_rows = <<>> /\ p_unique = <<>> /\ p_pc = "idle"

PickIdle == tables = <<>> /\ picked = [raised |-> FALSE, best |-> 0] /\ k_pc = "idle"

\* The Absent marker (pd.NA, None) of a coerced value.
NA == [kind |-> "NA", type |-> "none", neg |-> FALSE, mant |-> 0, exp |-> 0]

CoerceIdle == c_text = <<>> /\ c_fn = "idle" /\ c_out = NA

DarazIdle ==
  /\ z_nmin = 0 /\ z_page = 0 /\ z_html = <<>> /\ z_items = <<>>
  /\ z_rows = <<>> /\ z_seen = {} /\ z_skipped = {}
  /\ z_pc = "idle" /\ z_df = [columns |-> <<>>, rows |-> <<>>]
  /\ z_driver = "none" /\ z_res = "idle"
  /\ z_parsed = 0 /\ z_moved = "none"

MbIdle == mb_tables = <<>> /\ mb_df = [columns |-> <<>>, nrows |-> 0] /\ mb_pc = "idle"

IdxIdle ==
  /\ x_raw = [cols |-> <<>>, rows |-> <<>>] /\ x_asof = ""
  /\ x_df = [columns |-> <<>>, rows |-> <<>>] /\ x_pc = "idle"

QsIdle ==
  /\ q_rows = <<>> /\ q_fut = <<>> /\ q_yielded = {} /\ q_now = 0
  /\ q_pc = "idle" /\ q_df = <<>>

\* The parts that a specification does not run.
GrIdle ==
  /\ g_pc = "idle" /\ g_genre = 0 /\ g_links = 0 /\ g_book = 0
  /\ g_attempt = 0 /\ g_bound = "unbound" /\ g_row = "None" /\ g_rows = <<>>
  /\ g_driver = "none" /\ g_res = "idle" /\ g_why = "none"

ArtIdle == a_pc = "idle" /\ a_driver = "none" /\ a_res = "idle"

ExpIdle ==
  /\ e_fn = "idle" /\ e_df = <<>> /\ e_cols = <<>> /\ e_out = <<>>
  /\ e_again = <<>> /\ e_pc = "idle"

LastIdle == GrIdle /\ ArtIdle /\ ExpIdle

LaterIdle ==
  CoerceIdle /\ DarazIdle /\ MbIdle /\ IdxIdle /\ QsIdle /\ LastIdle

\* collect_dawn_headlines(n) at its first get_html(BASE_URLS[0]).
Init ==
  /\ n \in 1..MaxN
  /\ idx = 1 /\ pc = "loop" /\ collected = <<>> /\ origin = <<>>
  /\ called = <<[endpoint |-> 1, buffered |-> 0]>>
  /\ warned = <<>> /\ df = <<>> /\ cres = "running"
  /\ retries = DefaultRetries /\ attempt = 0 /\ gets = 0 /\ last_err = NoErr
  /\ resp = NoResp /\ fpc = "loop" /\ html = ErrorBody
  /\ ParseIdle /\ PickIdle /\ LaterIdle

Next == GetAttempt \/ GetExhausted \/ CollectOk \/ CollectWarn \/ Finalize

Spec == Init /\ [][Next]_vars

\* get_html(url, retries) called on its own.
InitFetch ==
  /\ retries \in 0..MaxRetries
  /\ attempt = 0 /\ gets = 0 /\ last_err = NoErr
  /\ resp = NoResp /\ fpc = "loop" /\ html = ErrorBody
  /\ CollectIdle /\ ParseIdle /\ PickIdle /\ LaterIdle

NextFetch == GetAttempt \/ GetExhausted

SpecFetch == InitFetch /\ [][NextFetch]_vars

\* parse_dawn_articles(html) called on its own.
ParsePages == {GoodMarkup(as) : as \in SeqsUpTo(Anchors, MaxAnchors)}

InitParse ==
  /\ p_html \in ParsePages
  /\ p_rows = <<>> /\ p_unique = <<>> /\ p_pc = "start"
  /\ FetchIdle /\ CollectIdle /\ PickIdle /\ LaterIdle

NextParse == ParseStep

SpecParse == InitParse /\ [][NextParse]_vars

\* ----------------------------------------------------- _pick_indices_table
\* A header label is a sequence of pieces of text; str(c).strip().lower()
\* lowers every piece, and `token in c` finds a token that is one of them.
Lower(piece) ==
  CASE piece = "Index" -> "index"
    [] piece = "HIGH" -> "high"
    [] piece = "High" -> "high"
    [] piece = "Low" -> "low"
    [] piece = "Change" -> "change"
    [] piece = "Name" -> "name"
    [] piece = "Value" -> "value"
    [] piece = "Current" -> "current"
    [] piece = "Indices" -> "indices"
    [] piece = "LDCP" -> "ldcp"
    [] OTHER -> piece

LowerLabel(label) == [i \in 1..Len(label) |-> Lower(label[i])]

Contains(label, token) == \E i \in 1..Len(label) : label[i] = token

\* The tokens the score adds up, in the order of the sum.
HeaderTokens == <<"index", "high", "low", "current", "change", "%">>

\* sum(int(token in c) for c in cols)
RECURSIVE CountCols(_, _)
CountCols(cols, token) ==
  IF cols = <<>> THEN 0
  ELSE (IF Contains(Head(cols), token) THEN 1 ELSE 0) + CountCols(Tail(cols), token)

RECURSIVE SumTokens(_, _)
SumTokens(cols, i) ==
  IF i > Len(HeaderTokens) THEN 0
  ELSE CountCols(cols, HeaderTokens[i]) + SumTokens(cols, i + 1)

Score(t) == SumTokens([i \in 1..Len(t.cols) |-> LowerLabel(t.cols[i])], 1)

\* A comparison that lets a later table of equal score win.
Better_OrEqual(score, best_score) == score >= best_score

\* score > best_score
Better(score, best_score) == score > best_score

\* len(df) > 0
HasRows(t) == t.nrows > 0

\* The loop over the tables, from table i on (best = 0 is None).
RECURSIVE PickFrom(_, _, _, _)
PickFrom(ts, i, best, best_score) ==
  IF i > Len(ts) THEN best
  ELSE IF Better(Score(ts[i]), best_score) /\ HasRows(ts[i])
    THEN PickFrom(ts, i + 1, i, Score(ts[i]))
    ELSE PickFrom(ts, i + 1, best, best_score)

\* pd.read_html raises when it finds no table; otherwise the loop runs from
\* best_df = None, best_score = -1, and no best_df raises RuntimeError.
PickIndicesTable(ts) ==
  IF ts = <<>> THEN [raised |-> TRUE, best |-> 0]
  ELSE LET b == PickFrom(ts, 1, 0, -1)
       IN [raised |-> (b = 0), best |-> b]

PickStep ==
  /\ k_pc = "start"
  /\ picked' = PickIndicesTable(tables)
  /\ k_pc' = "done"
  /\ UNCHANGED <<tables, fetchVars, collectVars, parseVars, laterVars>>

\* Candidate tables: generated ones, and the two of the documented example.
Labels == { <<"HIGH">>, <<"Change", " ", "%">>, <<"Name">> }

ExampleA == [cols |-> << <<"Index">>, <<"High">>, <<"Low">> >>, nrows |-> 1]

ExampleB == [cols |-> << <<"Name">>, <<"Value">> >>, nrows |-> 1]

\* The score adds up over the labels of a header whatever their order, so a
\* generated header lists its labels in one order: HIGH before "Change %"
\* before Name.
LabelRank(label) ==
  IF label = <<"HIGH">> THEN 1 ELSE IF label = <<"Name">> THEN 3 ELSE 2

TableSet ==
  { [cols |-> c, nrows |-> r] :
      c \in { s \in UNION {[1..l -> Labels] : l \in 1..MaxCols} :
                \A i \in 1..(Len(s) - 1) : LabelRank(s[i]) <= LabelRank(s[i + 1]) },
      r \in 0..1 }
  \cup {ExampleA, ExampleB}

InitPick ==
  /\ tables \in SeqsUpTo(TableSet, MaxTables)
  /\ picked = [raised |-> FALSE, best |-> 0] /\ k_pc = "start"
  /\ FetchIdle /\ CollectIdle /\ ParseIdle /\ LaterIdle

NextPick == PickStep

SpecPick == InitPick /\ [][NextPick]_vars

\* ------------------------------------------------------------- coercions
\* Texts are sequences of characters; "NNBSP" stands for the one character
\* U+202F (narrow no-break space).
Digits == {"0", "1", "2", "3", "4", "5", "6", "7", "8", "9"}

DigitVal(c) ==
  CASE c = "0" -> 0 [] c = "1" -> 1 [] c = "2" -> 2 [] c = "3" -> 3
    [] c = "4" -> 4 [] c = "5" -> 5 [] c = "6" -> 6 [] c = "7" -> 7
    [] c = "8" -> 8 [] c = "9" -> 9

\* What str.strip() strips and the regex class \s matches.
Whitespace == {" ", "NNBSP"}

\* _num_cleaner removes every character outside [0-9+\-\.eE].
CleanerKeeps == Digits \cup {"+", "-", ".", "e", "E"}

\* s with the characters of C removed: s.replace(c, "") / pattern.sub("", s)
Drop(s, C) == SelectSeq(s, LAMBDA c : c \notin C)

\* s with only its characters of C kept: sub("", s) of a pattern [^C]
Keep(s, C) == SelectSeq(s, LAMBDA c : c \in C)

\* A replace that removes nothing.
DropCommas_Keep(s) == s

\* s.replace(",", "")
DropCommas(s) == Drop(s, {","})

\* str.strip()
Strip(s) ==
  LET solid == {i \in 1..Len(s) : s[i] \notin Whitespace}
      lo == CHOOSE i \in solid : \A j \in solid : i <= j
      hi == CHOOSE i \in solid : \A j \in solid : j <= i
  IN  IF solid = {} THEN <<>> ELSE SubSeq(s, lo, hi)

\* Index of the last character of the longest run of characters of C that
\* starts at index i (i - 1 when s[i] is not in C): a greedy C*.
RunEnd(s, i, C) ==
  CHOOSE j \in (i - 1)..Len(s) :
    /\ \A k \in i..j : s[k] \in C
    /\ j = Len(s) \/ s[j + 1] \notin C

RECURSIVE NatOf(_)
\* The number a string of decimal digits denotes.
NatOf(ds) ==
  IF ds = <<>> THEN 0
  ELSE NatOf(SubSeq(ds, 1, Len(ds) - 1)) * 10 + DigitVal(ds[Len(ds)])

RECURSIVE Pow10(_)
Pow10(k) == IF k = 0 THEN 1 ELSE 10 * Pow10(k - 1)

RECURSIVE NumDigits(_)
NumDigits(m) == IF m < 10 THEN 1 ELSE 1 + NumDigits(m \div 10)

RECURSIVE TrimZeros(_, _)
\* The same value m * 10^e with no trailing zero in m.
TrimZeros(m, e) ==
  IF m # 0 /\ m % 10 = 0 THEN TrimZeros(m \div 10, e + 1) ELSE <<m, e>>

Inf(neg) == [kind |-> "inf", type |-> "float", neg |-> neg, mant |-> 0, exp |-> 0]

\* The double nearest to (-1)^neg * m * 10^e, written as a decimal: numbers
\* are compared by value, so 1234.50 and 1234.5 are one value and -0.0 is 0.0.
\* A magnitude beyond the largest double (1.7976931...e308) is inf, as float()
\* returns it, and one below the smallest double (order 1e-324) is 0.0.
Float(neg, m, e) ==
  LET t == TrimZeros(m, e)
      nd == NumDigits(t[1])
      mag == nd + t[2] - 1
      lead == IF nd <= 8 THEN t[1] * Pow10(8 - nd) ELSE t[1] \div Pow10(nd - 8)
  IN  IF t[1] = 0 \/ mag < -324
        THEN [kind |-> "num", type |-> "float", neg |-> FALSE,
              mant |-> 0, exp |-> 0]
      ELSE IF mag > 308 \/ (mag = 308 /\ lead > 17976931)
        THEN Inf(neg)
      ELSE [kind |-> "num", type |-> "float", neg |-> neg,
            mant |-> t[1], exp |-> t[2]]

\* A Python int.
PyInt(m) == [kind |-> "num", type |-> "int", neg |-> FALSE, mant |-> m, exp |-> 0]

\* try: return int(ds) / except Exception: return None, for ds made of
\* digits and commas.
IntOrNone(ds) ==
  IF ds # <<>> /\ \A i \in 1..Len(ds) : ds[i] \in Digits THEN PyInt(NatOf(ds))
  ELSE NA

\* try: return float(s) / except Exception: return pd.NA, for s without
\* letters other than e and E: [sign] digits [. [digits]] [e [sign] digits]
\* or [sign] . digits [e [sign] digits]; anything else is a ValueError.
FloatOrNA(s) ==
  LET signed == s # <<>> /\ s[1] \in {"+", "-"}
      i0 == IF signed THEN 2 ELSE 1
      iEnd == RunEnd(s, i0, Digits)
      hasDot == iEnd < Len(s) /\ s[iEnd + 1] = "."
      f0 == iEnd + 2
      fEnd == IF hasDot THEN RunEnd(s, f0, Digits) ELSE iEnd
      hasExp == fEnd < Len(s) /\ s[fEnd + 1] \in {"e", "E"}
      eSigned == hasExp /\ fEnd + 1 < Len(s) /\ s[fEnd + 2] \in {"+", "-"}
      e0 == IF eSigned THEN fEnd + 3 ELSE fEnd + 2
      eEnd == IF hasExp THEN RunEnd(s, e0, Digits) ELSE fEnd
      intDs == SubSeq(s, i0, iEnd)
      fracDs == IF hasDot THEN SubSeq(s, f0, fEnd) ELSE <<>>
      expDs == IF hasExp THEN SubSeq(s, e0, eEnd) ELSE <<>>
      expVal == IF eSigned /\ s[fEnd + 2] = "-" THEN 0 - NatOf(expDs)
                ELSE NatOf(expDs)
      ok == /\ Len(intDs) + Len(fracDs) > 0
            /\ hasExp => Len(expDs) > 0
            /\ eEnd = Len(s)
  IN  IF ok THEN Float(signed /\ s[1] = "-", NatOf(intDs \o fracDs),
                       expVal - Len(fracDs))
      ELSE NA

\* _to_float(x) for a string x
to_float(x) ==
  LET s == Strip(x)
      t == Keep(DropCommas(s), CleanerKeeps)
  IN  IF s \in {<<>>, <<"-">>, <<"-", "-">>} THEN NA
      ELSE IF t \in {<<>>, <<"+">>, <<"-">>} THEN NA
      ELSE FloatOrNA(t)

\* Where a match of (-?\d+(?:\.\d+)?)\s*% that starts at index p ends its
\* group 1, or 0 when there is no match at p.  Each part is greedy, and
\* giving back a digit never helps: the next character would be a digit.
PercentGroupEnd(s, p) ==
  LET i0 == IF s[p] = "-" THEN p + 1 ELSE p
      iEnd == RunEnd(s, i0, Digits)
      hasFrac == /\ iEnd + 1 < Len(s) /\ s[iEnd + 1] = "."
                 /\ s[iEnd + 2] \in Digits
      gEnd == IF hasFrac THEN RunEnd(s, iEnd + 2, Digits) ELSE iEnd
      wEnd == RunEnd(s, gEnd + 1, Whitespace)
  IN  IF iEnd >= i0 /\ wEnd < Len(s) /\ s[wEnd + 1] = "%" THEN gEnd ELSE 0

\* _to_percent(x) for a string x: re.search takes the leftmost match.
to_percent(x) ==
  LET starts == {p \in 1..Len(x) : PercentGroupEnd(x, p) > 0}
      p0 == CHOOSE p \in starts : \A q \in starts : p <= q
  IN  IF starts # {} THEN FloatOrNA(SubSeq(x, p0, PercentGroupEnd(x, p0)))
      ELSE to_float(x)

\* parse_int(s): the last match of \d[\d,]* with its commas removed.  A match
\* starts at a digit that no earlier match has consumed, and runs to the end
\* of the run of digits and commas.
parse_int(s) ==
  LET t == Drop(s, {"NNBSP"})   \* s.replace("\u202f", "")
      DC == Digits \cup {","}
      starts == {i \in 1..Len(t) :
                   /\ t[i] \in Digits
                   /\ ~\E k \in 1..(i - 1) :
                        t[k] \in Digits /\ \A m \in k..i : t[m] \in DC}
      last == CHOOSE i \in starts : \A j \in starts : j <= i
  IN  IF s = <<>> \/ starts = {} THEN NA
      ELSE IntOrNone(DropCommas(SubSeq(t, last, RunEnd(t, last, DC))))

\* parse_float(s): the leftmost match of (\d+\.\d+|\d+)
parse_float(s) ==
  LET starts == {i \in 1..Len(s) : s[i] \in Digits}
      p0 == CHOOSE i \in starts : \A j \in starts : i <= j
      iEnd == RunEnd(s, p0, Digits)
      hasFrac == /\ iEnd + 1 < Len(s) /\ s[iEnd + 1] = "."
                 /\ s[iEnd + 2] \in Digits
      gEnd == IF hasFrac THEN RunEnd(s, iEnd + 2, Digits) ELSE iEnd
  IN  IF s = <<>> \/ starts = {} THEN NA
      ELSE FloatOrNA(SubSeq(s, p0, gEnd))

\* The characters that texts are drawn from, and texts that the bounded
\* enumeration does not reach.
Chars == {"1", "0", ",", ".", "-", "+", "%", " ", "e", "x"}

CellTexts ==
  SeqsUpTo(Chars, MaxStrLen)
  \cup { <<"1", ",", "2", "3", "4", ".", "5", "0">>,
         <<"-", "3", ".", "2", "%">>,
         <<"1", "2", ",", "0", "0", "0">>,
         <<"1", "e", "9", "9", "9">>,
         <<"1", ",", "2", "3", "4", ".", "5", "%">>,
         <<"1", ",", "2", "3", "4", ".", "5">>,
         <<"1", "NNBSP", "2", "3", "4", " ", "x">> }

Coerce(fn, out) ==
  /\ c_fn = "start"
  /\ c_fn' = fn
  /\ c_out' = out
  /\ UNCHANGED c_text
  /\ UNCHANGED <<fetchVars, collectVars, parseVars, pickVars, lastVars>>
  /\ UNCHANGED <<darazVars, mbVars, idxVars, qsVars>>

CallToFloat == Coerce("_to_float", to_float(c_text))

CallToPercent == Coerce("_to_percent", to_percent(c_text))

CallParseInt == Coerce("parse_int", parse_int(c_text))

CallParseFloat == Coerce("parse_float", parse_float(c_text))

InitCoerce ==
  /\ c_text \in CellTexts /\ c_fn = "start" /\ c_out = NA
  /\ FetchIdle /\ CollectIdle /\ ParseIdle /\ PickIdle
  /\ DarazIdle /\ MbIdle /\ IdxIdle /\ QsIdle /\ LastIdle

NextCoerce == CallToFloat \/ CallToPercent \/ CallParseInt \/ CallParseFloat

SpecCoerce == InitCoerce /\ [][NextCoerce]_vars

\* ------------------------------------------------------ the finally blocks
\* finally: try: driver.quit() / except Exception: pass -- quit returns or
\* raises.
QuitOutcomes == {"quit", "quit failed"}

\* A finally block that lets the failure of quit out.
Propagates_QuitFailure(res, q) == res = "raising" \/ q = "quit failed"

\* Whether an exception leaves the function after the finally block: the one
\* that was on its way when the block was entered, never one of quit.
Propagates(res, q) == res = "raising"

\* --------------------------------------------------- scrape_daraz_from_home
MAX_PAGES == 4

DarazBase == "https://www.daraz.pk"

\* A URL is a sequence of pieces; the empty sequence is the empty string.
\* The hrefs of a product card: none, a relative and an absolute link to
\* product 1, a relative link to product 2.
Hrefs4 ==
  { <<>>, <<"/products/p1">>, <<DarazBase, "/products/p1">>, <<"/products/p2">> }

\* A product card as far as its link and its title go; its text holds no
\* price, rating or delivery keyword.  Cards with a link have a title.
Cards ==
  {[href |-> h, title |-> "iPhone 15"] : h \in Hrefs4}
  \cup {[href |-> <<>>, title |-> ""]}

\* The result pages that driver.page_source may hold.
DarazPages == SeqsUpTo(Cards, MaxCards)

ItemFields ==
  <<"Title", "Price", "Seller", "Ratings", "DeliveryOptions", "ProductURL">>

\* Item(Title=title or "", Price=price, Seller=None, Ratings=ratings,
\*      DeliveryOptions=delivery_str, ProductURL=href or "")
Item(title, href) ==
  [Title |-> title, Price |-> "None", Seller |-> "None", Ratings |-> "None",
   DeliveryOptions |-> "None", ProductURL |-> href]

\* if href and not href.startswith("http"): href = "https://www.daraz.pk" + href
Absolute(href) ==
  IF href # <<>> /\ href[1] # DarazBase THEN <<DarazBase>> \o href ELSE href

\* A duplicate test that lets every item through.
SkipDup_Never(url, seen) == FALSE

\* A duplicate test that does not look at the key being empty.
SkipDup_AnyKey(url, seen) == url \in seen

\* if href and href in seen: continue
\* if it.ProductURL and it.ProductURL in seen_urls: continue
SkipDup(url, seen) == url # <<>> /\ url \in seen

RECURSIVE ParseCards(_, _, _, _)
\* The for loop of parse_results_page_html from card i on.
ParseCards(cards, i, seen, out) ==
  IF i > Len(cards) THEN out
  ELSE LET href == Absolute(cards[i].href)
           title == cards[i].title
       IN  IF SkipDup(href, seen) THEN ParseCards(cards, i + 1, seen, out)
           ELSE IF title = "" /\ href = <<>>
             THEN ParseCards(cards, i + 1, seen, out)
           ELSE ParseCards(cards, i + 1,
                           IF href # <<>> THEN seen \cup {href} ELSE seen,
                           Append(out, Item(title, href)))

parse_results_page_html(h) == ParseCards(h, 1, {}, <<>>)

RECURSIVE TakeItems(_, _, _, _, _, _)
\* The for loop over page_items from item i on; skipped collects the items
\* that the loop drops as duplicates.
TakeItems(items, i, rows, seen, skipped, nmin) ==
  IF i > Len(items) THEN [rows |-> rows, seen |-> seen, skipped |-> skipped]
  ELSE IF SkipDup(items[i].ProductURL, seen)
    THEN TakeItems(items, i + 1, rows, seen, skipped \cup {items[i]}, nmin)
  ELSE IF Len(rows) + 1 >= nmin
    THEN [rows |-> Append(rows, items[i]),
          seen |-> seen \cup {items[i].ProductURL}, skipped |-> skipped]
  ELSE TakeItems(items, i + 1, Append(rows, items[i]),
                 seen \cup {items[i].ProductURL}, skipped, nmin)

NoFrame == [columns |-> <<>>, rows |-> <<>>]

\* build_driver returns a driver, or raises before the try block is entered.
BuildDriver ==
  /\ z_pc = "build"
  /\ \/ z_driver' = "open" /\ z_pc' = "search" /\ UNCHANGED z_res
     \/ z_driver' = "none" /\ z_pc' = "done" /\ z_res' = "raised"
  /\ UNCHANGED <<z_nmin, z_page, z_html, z_items, z_rows, z_seen, z_skipped, z_df>>
  /\ UNCHANGED <<z_parsed, z_moved>>
  /\ UNCHANGED <<fetchVars, collectVars, parseVars, pickVars, lastVars>>
  /\ UNCHANGED <<coerceVars, mbVars, idxVars, qsVars>>

\* perform_search(driver, query); page = 1
PerformSearch ==
  /\ z_pc = "search"
  /\ z_pc' = "loop"
  /\ z_page' = 1
  /\ UNCHANGED <<z_nmin, z_html, z_items, z_rows, z_seen, z_skipped, z_df,
                 z_driver, z_res>>
  /\ UNCHANGED <<z_parsed, z_moved>>
  /\ UNCHANGED <<fetchVars, collectVars, parseVars, pickVars, lastVars>>
  /\ UNCHANGED <<coerceVars, mbVars, idxVars, qsVars>>

\* A loop condition without the page cap.
MorePages_NoCap == Len(z_rows) < z_nmin

\* while len(rows) < n_min and page <= MAX_PAGES
MorePages == Len(z_rows) < z_nmin /\ z_page <= MAX_PAGES

\* One iteration of the while loop: parse the page, take its items, and
\* unless enough rows are collected click "next" (moved tells the outcome).
\* html and page_items are locals of the iteration.
PageStep ==
  /\ z_pc = "loop"
  /\ MorePages
  /\ z_parsed' = z_parsed + 1
  /\ \E h \in DarazPages :
       LET items == parse_results_page_html(h)
           t == TakeItems(items, 1, z_rows, z_seen, z_skipped, z_nmin)
       IN  /\ z_rows' = t.rows
           /\ z_seen' = t.seen
           /\ z_skipped' = t.skipped
           /\ IF Len(t.rows) >= z_nmin
                THEN z_pc' = "enrich" /\ UNCHANGED <<z_page, z_moved>>
                ELSE \E moved \in BOOLEAN :
                       /\ z_moved' = IF moved THEN "yes" ELSE "no"
                       /\ IF moved
                            THEN z_pc' = "loop" /\ z_page' = z_page + 1
                            ELSE z_pc' = "enrich" /\ UNCHANGED z_page
  /\ UNCHANGED <<z_nmin, z_html, z_items, z_df, z_driver, z_res>>
  /\ UNCHANGED <<fetchVars, collectVars, parseVars, pickVars, lastVars>>
  /\ UNCHANGED <<coerceVars, mbVars, idxVars, qsVars>>

\* The while condition is false: the loop is left.
PagesDone ==
  /\ z_pc = "loop"
  /\ ~MorePages
  /\ z_pc' = "enrich"
  /\ UNCHANGED <<z_nmin, z_page, z_html, z_items, z_rows, z_seen, z_skipped,
                 z_df, z_driver, z_res>>
  /\ UNCHANGED <<z_parsed, z_moved>>
  /\ UNCHANGED <<fetchVars, collectVars, parseVars, pickVars, lastVars>>
  /\ UNCHANGED <<coerceVars, mbVars, idxVars, qsVars>>

\* open_and_parse_product(driver, url) returns (None, None) for a url that
\* does not start with "http"; otherwise the product page names a seller or
\* does not.  The rows carry no delivery option, and none is found.
Sellers(url) == IF url = <<>> THEN {"None"} ELSE {"None", "Daraz Shop"}

\* The detail loop: for i in range(min(n_min, len(rows)))
Enrich ==
  /\ z_pc = "enrich"
  /\ \E s \in [1..Len(z_rows) -> {"None", "Daraz Shop"}] :
       /\ \A i \in 1..Len(z_rows) : s[i] \in Sellers(z_rows[i].ProductURL)
       /\ z_rows' = [i \in 1..Len(z_rows) |->
                       IF i <= z_nmin THEN [z_rows[i] EXCEPT !.Seller = s[i]]
                       ELSE z_rows[i]]
  /\ z_pc' = "frame"
  /\ UNCHANGED <<z_nmin, z_page, z_html, z_items, z_seen, z_skipped, z_df,
                 z_driver, z_res>>
  /\ UNCHANGED <<z_parsed, z_moved>>
  /\ UNCHANGED <<fetchVars, collectVars, parseVars, pickVars, lastVars>>
  /\ UNCHANGED <<coerceVars, mbVars, idxVars, qsVars>>

\* df[col].fillna(default) for the columns the frame has
FillNa(r) ==
  [f \in DOMAIN r |->
     IF f \in {"Price", "Seller", "Ratings", "DeliveryOptions"} /\ r[f] = "None"
       THEN "Not available" ELSE r[f]]

\* pd.DataFrame([asdict(x) for x in rows]): a frame built from an empty list
\* has no columns.
Frame(rows) ==
  [columns |-> IF rows = <<>> THEN <<>> ELSE ItemFields,
   rows |-> [i \in 1..Len(rows) |-> FillNa(rows[i])]]

\* Build the frame, apply the fallbacks, write the CSV, return df.
MakeFrame ==
  /\ z_pc = "frame"
  /\ z_df' = Frame(z_rows)
  /\ z_res' = "returning"
  /\ z_pc' = "finally"
  /\ UNCHANGED <<z_nmin, z_page, z_html, z_items, z_rows, z_seen, z_skipped,
                 z_driver>>
  /\ UNCHANGED <<z_parsed, z_moved>>
  /\ UNCHANGED <<fetchVars, collectVars, parseVars, pickVars, lastVars>>
  /\ UNCHANGED <<coerceVars, mbVars, idxVars, qsVars>>

\* An exception inside the try block (the search, the page source, a product
\* page, the CSV file).
DarazRaise ==
  /\ z_pc \in {"search", "loop", "enrich", "frame"}
  /\ z_res' = "raising"
  /\ z_pc' = "finally"
  /\ UNCHANGED <<z_nmin, z_page, z_html, z_items, z_rows, z_seen, z_skipped,
                 z_df, z_driver>>
  /\ UNCHANGED <<z_parsed, z_moved>>
  /\ UNCHANGED <<fetchVars, collectVars, parseVars, pickVars, lastVars>>
  /\ UNCHANGED <<coerceVars, mbVars, idxVars, qsVars>>

\* finally: try: driver.quit() / except Exception: pass
DarazFinally ==
  /\ z_pc = "finally"
  /\ \E q \in QuitOutcomes :
       /\ z_driver' = q
       /\ z_res' = IF Propagates(z_res, q) THEN "raised" ELSE "returned"
  /\ z_pc' = "done"
  /\ UNCHANGED <<z_nmin, z_page, z_html, z_items, z_rows, z_seen, z_skipped,
                 z_df>>
  /\ UNCHANGED <<z_parsed, z_moved>>
  /\ UNCHANGED <<fetchVars, collectVars, parseVars, pickVars, lastVars>>
  /\ UNCHANGED <<coerceVars, mbVars, idxVars, qsVars>>

\* parse_results_page_html called on its own on the page z_html.
ParsePage ==
  /\ z_pc = "parse"
  /\ z_items' = parse_results_page_html(z_html)
  /\ z_pc' = "parsed"
  /\ UNCHANGED <<z_nmin, z_page, z_html, z_rows, z_seen, z_skipped, z_df,
                 z_driver, z_res>>
  /\ UNCHANGED <<z_parsed, z_moved>>
  /\ UNCHANGED <<fetchVars, collectVars, parseVars, pickVars, lastVars>>
  /\ UNCHANGED <<coerceVars, mbVars, idxVars, qsVars>>

\* A call of scrape_daraz_from_home(n_min = z_nmin), or a call of
\* parse_results_page_html(z_html).
InitDaraz ==
  /\ \/ z_pc = "build" /\ z_nmin \in 0..MaxNMin /\ z_html = <<>>
     \/ z_pc = "parse" /\ z_nmin = 0 /\ z_html \in DarazPages
  /\ z_page = 0 /\ z_items = <<>>
  /\ z_rows = <<>> /\ z_seen = {} /\ z_skipped = {}
  /\ z_df = NoFrame /\ z_driver = "none" /\ z_res = "running"
  /\ z_parsed = 0 /\ z_moved = "none"
  /\ FetchIdle /\ CollectIdle /\ ParseIdle /\ PickIdle
  /\ CoerceIdle /\ MbIdle /\ IdxIdle /\ QsIdle /\ LastIdle

NextDaraz ==
  \/ BuildDriver \/ PerformSearch \/ PageStep \/ PagesDone \/ Enrich
  \/ MakeFrame \/ DarazRaise \/ DarazFinally \/ ParsePage

SpecDaraz == InitDaraz /\ [][NextDaraz]_vars

\* Every call made inside the function returns or raises (the driver has
\* page-load and script timeouts), so a step that can be taken is taken.
SpecDarazLive == SpecDaraz /\ WF_vars(NextDaraz)

\* -------------------------------------- collect_mainboard_from_market_summary
\* str(c).strip().upper() of a piece of a header label
Upper(piece) ==
  CASE piece = "Scrip" -> "SCRIP"
    [] piece = "Symbol" -> "SYMBOL"
    [] piece = "Open" -> "OPEN"
    [] piece = "High" -> "HIGH"
    [] piece = "Low" -> "LOW"
    [] piece = "Current" -> "CURRENT"
    [] piece = "Change" -> "CHANGE"
    [] piece = "Volume" -> "VOLUME"
    [] OTHER -> piece

MbKeywords == {"LDCP", "OPEN", "HIGH", "LOW", "CURRENT", "CHANGE", "VOLUME"}

\* The number of keywords a header must hold besides SCRIP.
MbMinKeywords == 5

\* `k in header`, header being the upper-cased labels joined by blanks
InHeader(k, cols) ==
  \E i \in 1..Len(cols) : \E j \in 1..Len(cols[i]) : Upper(cols[i][j]) = k

\* if ("SCRIP" in header) and sum(k in header for k in [...]) >= 5
MbPicks(t) ==
  /\ InHeader("SCRIP", t.cols)
  /\ Cardinality({k \in MbKeywords : InHeader(k, t.cols)}) >= MbMinKeywords

MainboardCols ==
  <<"Index Name", "LDCP", "Open", "High", "Low", "Current", "Change", "Volume">>

RECURSIVE SumRows(_)
\* len(pd.concat(picked))
SumRows(ts) == IF ts = <<>> THEN 0 ELSE Head(ts).nrows + SumRows(Tail(ts))

\* The frame collect_mainboard_from_market_summary returns for the tables of
\* the page (no table at all makes pd.read_html raise ValueError).
Mainboard(ts) ==
  LET picks == SelectSeq(ts, MbPicks)
  IN  IF ts = <<>> \/ picks = <<>>
        THEN [columns |-> MainboardCols, nrows |-> 0]
      ELSE [columns |-> MainboardCols \o <<"scraped_at", "source">>,
            nrows |-> SumRows(picks)]

CollectMainboard ==
  /\ mb_pc = "start"
  /\ mb_df' = Mainboard(mb_tables)
  /\ mb_pc' = "done"
  /\ UNCHANGED mb_tables
  /\ UNCHANGED <<fetchVars, collectVars, parseVars, pickVars, lastVars>>
  /\ UNCHANGED <<coerceVars, darazVars, idxVars, qsVars>>

\* Headers of tables of the market summary page: a main-board table, one
\* with five of the keywords, one with four, and one without a Scrip column.
MbHeaders ==
  { << <<"SCRIP">>, <<"LDCP">>, <<"OPEN">>, <<"HIGH">>, <<"LOW">>,
       <<"CURRENT">>, <<"CHANGE">>, <<"VOLUME">> >>,
    << <<"Scrip">>, <<"LDCP">>, <<"Open">>, <<"High">>, <<"Low">>,
       <<"Current">> >>,
    << <<"Scrip">>, <<"LDCP">>, <<"Open">>, <<"High">>, <<"Low">> >>,
    << <<"Symbol">>, <<"LDCP">>, <<"Open">>, <<"High">>, <<"Low">>,
       <<"Current">>, <<"Change">>, <<"Volume">> >> }

MbTables == [cols : MbHeaders, nrows : 0..MaxMbRows]

InitMainboard ==
  /\ mb_tables \in SeqsUpTo(MbTables, MaxMbTables)
  /\ mb_df = [columns |-> <<>>, nrows |-> 0] /\ mb_pc = "start"
  /\ FetchIdle /\ CollectIdle /\ ParseIdle /\ PickIdle
  /\ CoerceIdle /\ DarazIdle /\ IdxIdle /\ QsIdle /\ LastIdle

NextMainboard == CollectMainboard

SpecMainboard == InitMainboard /\ [][NextMainboard]_vars

\* --------------------------------------------------- collect_indices_from_dps
\* Column names are sequences of pieces of text, as header labels are.
\* target = ["Index Name","LDCP","Open","High","Low","Current","Change",
\*           "Change %","Volume"]
IdxTarget ==
  << <<"Index", " ", "Name">>, <<"LDCP">>, <<"Open">>, <<"High">>, <<"Low">>,
     <<"Current">>, <<"Change">>, <<"Change", " ", "%">>, <<"Volume">> >>

\* The name the rename loop gives a raw column (its own label when no branch
\* applies).  "change%" in lc implies "%" in lc.
RenameOf(label) ==
  LET lc == LowerLabel(label)
  IN  IF lc \in {<<"index">>, <<"indices">>} THEN <<"Index", " ", "Name">>
      ELSE IF lc = <<"high">> THEN <<"High">>
      ELSE IF lc = <<"low">> THEN <<"Low">>
      ELSE IF Contains(lc, "current") THEN <<"Current">>
      ELSE IF Contains(lc, "%") THEN <<"Change", " ", "%">>
      ELSE IF lc = <<"change">> THEN <<"Change">>
      ELSE label

\* A cell of the raw table: a text, or NA for a missing value (NaN).
Cell(text) == [kind |-> "str", text |-> text]

\* df[col][r] after the rename and the schema fill: the cell of the raw
\* column that carries the name, NA when there is none.
CellOf(raw, r, name) ==
  LET at == {i \in 1..Len(raw.cols) : RenameOf(raw.cols[i]) = name}
  IN  IF at = {} THEN NA ELSE raw.rows[r][CHOOSE i \in at : TRUE]

\* df[col].map(_to_float): pd.isna(x) gives pd.NA, else the text is coerced
MapFloat(c) == IF c = NA THEN NA ELSE to_float(c.text)

\* df["Change %"].map(_to_percent)
MapPercent(c) == IF c = NA THEN NA ELSE to_percent(c.text)

\* a - b for two finite numbers, as decimals (the rounding of the double
\* subtraction is not modelled)
Minus(a, b) ==
  LET e == Min(a.exp, b.exp)
      sa == (IF a.neg THEN -1 ELSE 1) * a.mant * Pow10(a.exp - e)
      sb == (IF b.neg THEN -1 ELSE 1) * b.mant * Pow10(b.exp - e)
      d == sa - sb
  IN  Float(d < 0, IF d < 0 THEN 0 - d ELSE d, e)

\* A derivation that takes a missing Change for zero.
derive_ldcp_Guess(cur, chg) ==
  IF cur.kind = "num" /\ chg.kind = "num" THEN Minus(cur, chg)
  ELSE IF cur.kind = "num" THEN cur
  ELSE NA

\* derive_ldcp(row): float(cur) - float(chg) when both are not NA; inf - inf
\* of one sign is NaN, which is a missing value
derive_ldcp(cur, chg) ==
  IF cur.kind = "NA" \/ chg.kind = "NA" THEN NA
  ELSE IF cur.kind = "num" /\ chg.kind = "num" THEN Minus(cur, chg)
  ELSE IF cur.kind = "inf" /\ chg.kind = "inf" /\ cur.neg = chg.neg THEN NA
  ELSE IF cur.kind = "inf" THEN cur
  ELSE Inf(~chg.neg)

\* A column list that leaves source_as_of out.
IdxColumns_NoAsOf(asof) == IdxTarget \o << <<"scraped_at">>, <<"source">> >>

\* The final column list.
IdxColumns(asof) ==
  IdxTarget \o << <<"scraped_at">>, <<"source">> >>
  \o (IF asof # "" THEN << <<"source_as_of">> >> ELSE <<>>)

\* Row r of the result.
IdxRow(raw, r, asof) ==
  LET num(c) == MapFloat(CellOf(raw, r, c))
      names == {IdxColumns(asof)[i] : i \in 1..Len(IdxColumns(asof))}
  IN  [c \in names |->
         IF c = <<"Index", " ", "Name">> THEN CellOf(raw, r, c)
         ELSE IF c = <<"LDCP">>
           THEN derive_ldcp(num(<<"Current">>), num(<<"Change">>))
         ELSE IF c \in {<<"Open">>, <<"Volume">>} THEN NA
         ELSE IF c \in {<<"High">>, <<"Low">>, <<"Current">>, <<"Change">>}
           THEN num(c)
         ELSE IF c = <<"Change", " ", "%">> THEN MapPercent(CellOf(raw, r, c))
         ELSE IF c = <<"scraped_at">> THEN Cell(<<"now">>)
         ELSE IF c = <<"source">> THEN Cell(<<"dps.psx.com.pk/indices">>)
         ELSE Cell(<<asof>>)]

CollectIndices ==
  /\ x_pc = "start"
  /\ x_df' = [columns |-> IdxColumns(x_asof),
              rows |-> [r \in 1..Len(x_raw.rows) |-> IdxRow(x_raw, r, x_asof)]]
  /\ x_pc' = "done"
  /\ UNCHANGED <<x_raw, x_asof>>
  /\ UNCHANGED <<fetchVars, collectVars, parseVars, pickVars, lastVars>>
  /\ UNCHANGED <<coerceVars, darazVars, mbVars, qsVars>>

\* Raw header labels, and the cells a column under each label may hold.
IdxLabels ==
  { <<"Index">>, <<"Current">>, <<"Change">>, <<"Change", " ", "%">>, <<"LDCP">> }

IdxCells(label) ==
  IF label = <<"Index">> THEN {Cell(<<"K", "S", "E", "1", "0", "0">>)}
  ELSE IF label = <<"Current">> THEN {Cell(<<"1", "0", "0", ".", "0">>), NA}
  ELSE IF label = <<"Change">> THEN {Cell(<<"2", ".", "5">>), Cell(<<"-", "-">>)}
  ELSE IF label = <<"Change", " ", "%">> THEN {Cell(<<"2", ".", "5", "6", "%">>), NA}
  ELSE {Cell(<<"9", "7", ".", "5">>)}

\* The table of the indices page with all its columns, one row.
IdxExample ==
  [cols |-> << <<"Index">>, <<"High">>, <<"Low">>, <<"Current">>, <<"Change">>,
               <<"Change", " ", "%">> >>,
   rows |-> << << Cell(<<"K", "S", "E", "1", "0", "0">>),
                  Cell(<<"1", "0", "0", ".", "0">>),
                  Cell(<<"9", "7", ".", "5">>),
                  Cell(<<"1", "0", "0", ".", "0">>),
                  Cell(<<"2", ".", "5">>),
                  Cell(<<"2", ".", "5", "6", "%">>) >> >>]

\* The rows a table with header h may hold.
IdxRows(h) ==
  {row \in [1..Len(h) -> UNION {IdxCells(l) : l \in IdxLabels}] :
     \A i \in 1..Len(h) : row[i] \in IdxCells(h[i])}

\* The tables _pick_indices_table may return: at least one row, and headers
\* that the rename loop maps to different names.
IdxTables ==
  { t \in UNION { [cols : {h}, rows : SeqsUpTo(IdxRows(h), MaxIdxRows) \ {<<>>}] :
                  h \in SeqsUpTo(IdxLabels, MaxIdxCols) \ {<<>>} } :
      \A i, j \in 1..Len(t.cols) :
        i # j => RenameOf(t.cols[i]) # RenameOf(t.cols[j]) }
  \cup {IdxExample}

AsOfTexts == {"", "Nov 3, 2026 3:30 PM"}

InitIndices ==
  /\ x_raw \in IdxTables
  /\ x_asof \in AsOfTexts
  /\ x_df = [columns |-> <<>>, rows |-> <<>>] /\ x_pc = "start"
  /\ FetchIdle /\ CollectIdle /\ ParseIdle /\ PickIdle
  /\ CoerceIdle /\ DarazIdle /\ MbIdle /\ QsIdle /\ LastIdle

NextIndices == CollectIndices

SpecIndices == InitIndices /\ [][NextIndices]_vars

\* ---------------------------------------------------- fill_countries_parallel
\* UniRow(name, None, None, "Not listed", url), as scrape_article_unis
\* builds row i.
UniRow(i) ==
  [University |-> i, Country |-> "None", OverallScore |-> "None",
   SubjectRanking |-> "Not listed", URL |-> i]

\* COUNTRY_NORMALIZE.get(c, c)
CountryNormalize(c) == IF c = "Mainland China" THEN "China" ELSE c

\* normalize_country(c); None stays None
normalize_country(c) == IF c = "None" THEN "None" ELSE CountryNormalize(c)

\* map_region(country)
map_region(country) ==
  LET c == normalize_country(country)
  IN  IF c = "None" THEN "Unknown"
      ELSE IF c \in {"China", "Japan"} THEN "Asia"
      ELSE "Unknown"

\* A future of the pool: not started, running, or done with the value
\* fetch_country returned; how tells what the fetch met.
Queued == [st |-> "queued", how |-> "none", res |-> "None"]

Running == [st |-> "running", how |-> "none", res |-> "None"]

\* The country the profile page of a URL names, when it is served and
\* parse_country_from_html finds one.
PageCountry(url) == IF url = 1 THEN "Japan" ELSE "Mainland China"

\* fetch_country(url) returns None for an exception, for a status other than
\* 200 and for a page without a country; otherwise the country of the page.
FetchOutcomes(url) ==
  { [st |-> "done", how |-> "exception", res |-> "None"],
    [st |-> "done", how |-> "non200", res |-> "None"],
    [st |-> "done", how |-> "page", res |-> "None"],
    [st |-> "done", how |-> "page", res |-> PageCountry(url)] }

\* ex.submit(fetch_country, r.URL) for i, r in enumerate(rows): the k-th
\* future fetches the URL of the k-th row.
SubmittedUrl(k) == q_rows[k].URL

\* A binding that sends every result to the first row.
future_by_idx_First(k) == 1

\* future_by_idx[fut]: the dict comprehension binds the k-th future to the
\* index i of the row whose URL it was submitted with.
future_by_idx(k) == k

\* The clock: 0 within the budget, 1 when time.time() - start has passed the
\* budget, 2 when the deadline of as_completed (taken later) has passed too.
ClockEnd == 2

\* if not rows: return; otherwise every fetch is submitted to the pool
QsStart ==
  /\ q_pc = "start"
  /\ IF q_rows = <<>>
       THEN q_pc' = "returned" /\ UNCHANGED q_fut
       ELSE q_pc' = "collect" /\ q_fut' = [i \in 1..Len(q_rows) |-> Queued]
  /\ UNCHANGED <<q_rows, q_yielded, q_now, q_df>>
  /\ UNCHANGED <<fetchVars, collectVars, parseVars, pickVars, lastVars>>
  /\ UNCHANGED <<coerceVars, darazVars, mbVars, idxVars>>

\* A free worker takes the oldest queued fetch.
WorkerStart ==
  /\ q_pc \in {"collect", "exiting"}
  /\ Cardinality({i \in 1..Len(q_fut) : q_fut[i].st = "running"}) < MAX_WORKERS
  /\ \E i \in 1..Len(q_fut) :
       /\ q_fut[i].st = "queued"
       /\ \A j \in 1..(i - 1) : q_fut[j].st # "queued"
       /\ q_fut' = [q_fut EXCEPT ![i] = Running]
  /\ UNCHANGED <<q_rows, q_yielded, q_now, q_pc, q_df>>
  /\ UNCHANGED <<fetchVars, collectVars, parseVars, pickVars, lastVars>>
  /\ UNCHANGED <<coerceVars, darazVars, mbVars, idxVars>>

\* fetch_country(url) returns in its worker.
WorkerFinish ==
  /\ \E i \in 1..Len(q_fut) : \E o \in FetchOutcomes(SubmittedUrl(i)) :
       /\ q_fut[i].st = "running"
       /\ q_fut' = [q_fut EXCEPT ![i] = o]
  /\ UNCHANGED <<q_rows, q_yielded, q_now, q_pc, q_df>>
  /\ UNCHANGED <<fetchVars, collectVars, parseVars, pickVars, lastVars>>
  /\ UNCHANGED <<coerceVars, darazVars, mbVars, idxVars>>

\* Time passes.
Tick ==
  /\ q_pc \in {"collect", "exiting"}
  /\ q_now < ClockEnd
  /\ q_now' = q_now + 1
  /\ UNCHANGED <<q_rows, q_fut, q_yielded, q_pc, q_df>>
  /\ UNCHANGED <<fetchVars, collectVars, parseVars, pickVars, lastVars>>
  /\ UNCHANGED <<coerceVars, darazVars, mbVars, idxVars>>

\* An assignment that marks a row whose fetch gave nothing.
NewCountry_Mark(c, old) ==
  IF normalize_country(c) # "None" THEN normalize_country(c) ELSE "Unknown"

\* normalize_country(c) or rows[idx].Country
NewCountry(c, old) ==
  IF normalize_country(c) # "None" THEN normalize_country(c) ELSE old

\* A loop that goes on taking results after it was left.
Collecting_Late == q_pc \in {"collect", "exiting"}

\* The for loop over as_completed is running: it was neither broken out of
\* nor ended by FuturesTimeout or by the last future.
Collecting == q_pc = "collect"

\* as_completed yields a finished future and the loop body runs: the row
\* bound to the future is written, and the loop is left when the budget has
\* passed or when no future is left.
Collect ==
  /\ Collecting
  /\ \E k \in 1..Len(q_fut) :
       /\ q_fut[k].st = "done" /\ k \notin q_yielded
       /\ q_rows' = [q_rows EXCEPT ![future_by_idx(k)].Country =
                                     NewCountry(q_fut[k].res, @)]
       /\ q_yielded' = q_yielded \cup {k}
       /\ q_pc' = IF q_now >= 1 \/ q_yielded' = 1..Len(q_fut)
                    THEN "exiting" ELSE "collect"
  /\ UNCHANGED <<q_fut, q_now, q_df>>
  /\ UNCHANGED <<fetchVars, collectVars, parseVars, pickVars, lastVars>>
  /\ UNCHANGED <<coerceVars, darazVars, mbVars, idxVars>>

\* as_completed raises FuturesTimeout: its deadline has passed and futures
\* are left that it has not handed out; except FuturesTimeout: pass
CollectTimeout ==
  /\ q_pc = "collect"
  /\ q_now = ClockEnd
  /\ q_yielded # 1..Len(q_fut)
  /\ q_pc' = "exiting"
  /\ UNCHANGED <<q_rows, q_fut, q_yielded, q_now, q_df>>
  /\ UNCHANGED <<fetchVars, collectVars, parseVars, pickVars, lastVars>>
  /\ UNCHANGED <<coerceVars, darazVars, mbVars, idxVars>>

\* The end of the with block calls ex.shutdown(wait=True): it returns when
\* every submitted fetch, queued ones included, has run to its end.
PoolExitDone == \A i \in 1..Len(q_fut) : q_fut[i].st = "done"

QsReturn ==
  /\ q_pc = "exiting"
  /\ PoolExitDone
  /\ q_pc' = "returned"
  /\ UNCHANGED <<q_rows, q_fut, q_yielded, q_now, q_df>>
  /\ UNCHANGED <<fetchVars, collectVars, parseVars, pickVars, lastVars>>
  /\ UNCHANGED <<coerceVars, darazVars, mbVars, idxVars>>

\* A default fill that fills nothing.
FillUnknown_Keep(c) == c

\* df["Country"].fillna("Unknown")
FillUnknown(c) == IF c = "None" THEN "Unknown" ELSE c

\* __main__: the frame of the rows, Country normalized and filled, Region
\* mapped from it.
FinalRow(r) ==
  LET c == FillUnknown(normalize_country(r.Country))
  IN  [University |-> r.University, Country |-> c,
       OverallScore |-> r.OverallScore, SubjectRanking |-> r.SubjectRanking,
       URL |-> r.URL,
       Region |-> map_region(IF c = "Unknown" THEN "None" ELSE c)]

QsFinalize ==
  /\ q_pc = "returned"
  /\ q_df' = [i \in 1..Len(q_rows) |-> FinalRow(q_rows[i])]
  /\ q_pc' = "final"
  /\ UNCHANGED <<q_rows, q_fut, q_yielded, q_now>>
  /\ UNCHANGED <<fetchVars, collectVars, parseVars, pickVars, lastVars>>
  /\ UNCHANGED <<coerceVars, darazVars, mbVars, idxVars>>

InitQs ==
  /\ \E m \in 0..MaxUnis : q_rows = [i \in 1..m |-> UniRow(i)]
  /\ q_fut = <<>> /\ q_yielded = {} /\ q_now = 0
  /\ q_pc = "start" /\ q_df = <<>>
  /\ FetchIdle /\ CollectIdle /\ ParseIdle /\ PickIdle
  /\ CoerceIdle /\ DarazIdle /\ MbIdle /\ IdxIdle /\ LastIdle

NextQs ==
  \/ QsStart \/ WorkerStart \/ WorkerFinish \/ Tick \/ Collect
  \/ CollectTimeout \/ QsReturn \/ QsFinalize

SpecQs == InitQs /\ [][NextQs]_vars

\* ------------------------------------------------------ scrape_article_unis
\* driver = build_driver(HEADLESS), outside the try block
ArtBuild ==
  /\ a_pc = "build"
  /\ \/ a_driver' = "open" /\ a_pc' = "try" /\ UNCHANGED a_res
     \/ a_driver' = "none" /\ a_pc' = "done" /\ a_res' = "raised"
  /\ UNCHANGED <<fetchVars, collectVars, parseVars, pickVars>>
  /\ UNCHANGED <<coerceVars, darazVars, mbVars, idxVars, qsVars>>
  /\ UNCHANGED <<grVars, expVars>>

\* The try block: robust_get, accept_cookies, kill_overlays, page_source.
\* robust_get swallows TimeoutException; anything else leaves the block.
ArtBody ==
  /\ a_pc = "try"
  /\ a_res' \in {"running", "raising"}
  /\ a_pc' = "finally"
  /\ UNCHANGED a_driver
  /\ UNCHANGED <<fetchVars, collectVars, parseVars, pickVars>>
  /\ UNCHANGED <<coerceVars, darazVars, mbVars, idxVars, qsVars>>
  /\ UNCHANGED <<grVars, expVars>>

ArtFinally ==
  /\ a_pc = "finally"
  /\ \E q \in QuitOutcomes :
       /\ a_driver' = q
       /\ IF Propagates(a_res, q)
            THEN a_res' = "raised" /\ a_pc' = "done"
            ELSE a_pc' = "parse" /\ UNCHANGED a_res
  /\ UNCHANGED <<fetchVars, collectVars, parseVars, pickVars>>
  /\ UNCHANGED <<coerceVars, darazVars, mbVars, idxVars, qsVars>>
  /\ UNCHANGED <<grVars, expVars>>

\* The anchors are parsed from html after the browser is gone; return rows
ArtParse ==
  /\ a_pc = "parse"
  /\ a_res' = "returned" /\ a_pc' = "done"
  /\ UNCHANGED a_driver
  /\ UNCHANGED <<fetchVars, collectVars, parseVars, pickVars>>
  /\ UNCHANGED <<coerceVars, darazVars, mbVars, idxVars, qsVars>>
  /\ UNCHANGED <<grVars, expVars>>

InitArt ==
  /\ a_pc = "build" /\ a_driver = "none" /\ a_res = "running"
  /\ FetchIdle /\ CollectIdle /\ ParseIdle /\ PickIdle
  /\ CoerceIdle /\ DarazIdle /\ MbIdle /\ IdxIdle /\ QsIdle
  /\ GrIdle /\ ExpIdle

NextArt == ArtBuild \/ ArtBody \/ ArtFinally \/ ArtParse

\* --------------------------------------------------------- scrape_goodreads
GENRES == <<"fiction", "mystery">>

\* What the try block of one attempt can raise ("none": it ran to break).
Excs ==
  { "none", "TimeoutException", "NoSuchWindowException",
    "ElementClickInterceptedException", "Exception" }

\* The row appended for a book: the details, or the placeholder when row is
\* None after the attempts.
BookRow(genre, book, row) ==
  [Genre |-> genre, URL |-> book,
   Title |-> IF row = "None" THEN "Not Available" ELSE "details"]

\* The names is_new and ret_handle are locals of scrape_goodreads, bound by
\* `is_new, ret_handle = open_book_page(driver, url)` when it returns:
\* "unbound" until then, afterwards "new tab" or "same tab" (is_new).
\* close_book_page(driver, is_new, ret_handle) in the handler of
\* TimeoutException, second attempt: reading an unbound name raises
\* UnboundLocalError, and close_book_page guards nothing but
\* NoSuchWindowException on its new-tab branch.
CloseRaises(bound, closeFails) ==
  bound = "unbound" \/ (bound = "new tab" /\ closeFails)

\* What happens after the try block of attempt number att met exc; next is
\* "attempt" (go round again), "append" (the attempts are over) or "abort"
\* (an exception leaves the for loops).
AfterAttempt(exc, att, bound, row, closeFails, fallback) ==
  CASE exc = "none" -> [next |-> "append", row |-> "details"]
    [] exc = "TimeoutException" ->
         IF att = 0 THEN [next |-> "attempt", row |-> row]
         ELSE IF CloseRaises(bound, closeFails)
           THEN [next |-> "abort", row |-> row]
         ELSE [next |-> "append", row |-> row]
    [] exc = "NoSuchWindowException" ->
         [next |-> "append", row |-> IF fallback THEN "details" ELSE row]
    [] OTHER ->
         IF att = 0 THEN [next |-> "attempt", row |-> row]
         ELSE [next |-> "append", row |-> row]

\* driver = make_driver(HEADLESS), outside the try block
GrMakeDriver ==
  /\ g_pc = "make"
  /\ \/ g_driver' = "open" /\ g_pc' = "genre" /\ g_genre' = 1
        /\ UNCHANGED <<g_res, g_why>>
     \/ g_driver' = "none" /\ g_pc' = "done" /\ g_res' = "raised"
        /\ g_why' = "driver" /\ UNCHANGED g_genre
  /\ UNCHANGED <<g_links, g_book, g_attempt, g_bound, g_row, g_rows>>
  /\ UNCHANGED <<fetchVars, collectVars, parseVars, pickVars>>
  /\ UNCHANGED <<coerceVars, darazVars, mbVars, idxVars, qsVars>>
  /\ UNCHANGED <<artVars, expVars>>

\* for genre in genres: open_genre_list and collect_book_links_from_list
\* give the links of the genre or raise; after the last genre the try block
\* ends.
GrGenre ==
  /\ g_pc = "genre"
  /\ IF g_genre > Len(GENRES)
       THEN g_pc' = "finally"
            /\ UNCHANGED <<g_links, g_book, g_genre, g_res, g_why>>
       ELSE \/ \E m \in 0..MaxLinks :
                 /\ g_links' = m /\ g_book' = 1
                 /\ IF m = 0 THEN g_genre' = g_genre + 1 /\ g_pc' = "genre"
                             ELSE g_pc' = "attempt" /\ UNCHANGED g_genre
                 /\ UNCHANGED <<g_res, g_why>>
            \/ /\ g_res' = "raising" /\ g_why' = "genre" /\ g_pc' = "finally"
               /\ UNCHANGED <<g_links, g_book, g_genre>>
  /\ g_attempt' = 0 /\ g_row' = "None"
  /\ UNCHANGED <<g_bound, g_rows, g_driver>>
  /\ UNCHANGED <<fetchVars, collectVars, parseVars, pickVars>>
  /\ UNCHANGED <<coerceVars, darazVars, mbVars, idxVars, qsVars>>
  /\ UNCHANGED <<artVars, expVars>>

\* One pass of `for attempt in range(2)`: the try block and the handler of
\* what it raised.  opened tells whether open_book_page returned, and how;
\* extracted whether extract_book_details returned.
GrAttempt ==
  /\ g_pc = "attempt"
  /\ \E exc \in Excs, opened \in {"no", "new tab", "same tab"},
        extracted, closeFails, fallback \in BOOLEAN :
       /\ extracted => opened # "no"
       /\ exc = "none" => extracted
       /\ LET bound == IF opened = "no" THEN g_bound ELSE opened
              row == IF extracted THEN "details" ELSE g_row
              a == AfterAttempt(exc, g_attempt, bound, row, closeFails, fallback)
          IN  /\ g_bound' = bound
              /\ g_row' = a.row
              /\ IF a.next = "abort"
                   THEN /\ g_res' = "raising" /\ g_why' = "book"
                        /\ g_pc' = "finally" /\ UNCHANGED g_attempt
                   ELSE /\ UNCHANGED <<g_res, g_why>>
                        /\ IF a.next = "attempt"
                             THEN g_attempt' = g_attempt + 1 /\ g_pc' = "attempt"
                             ELSE g_pc' = "append" /\ UNCHANGED g_attempt
  /\ UNCHANGED <<g_genre, g_links, g_book, g_rows, g_driver>>
  /\ UNCHANGED <<fetchVars, collectVars, parseVars, pickVars>>
  /\ UNCHANGED <<coerceVars, darazVars, mbVars, idxVars, qsVars>>
  /\ UNCHANGED <<artVars, expVars>>

\* if row is None: the placeholder; all_rows.append(row); the next book, or
\* the next genre after the last link.
GrAppend ==
  /\ g_pc = "append"
  /\ g_rows' = Append(g_rows, BookRow(GENRES[g_genre], g_book, g_row))
  /\ g_row' = "None" /\ g_attempt' = 0
  /\ IF g_book < g_links
       THEN g_book' = g_book + 1 /\ g_pc' = "attempt" /\ UNCHANGED g_genre
       ELSE g_genre' = g_genre + 1 /\ g_pc' = "genre" /\ UNCHANGED g_book
  /\ UNCHANGED <<g_links, g_bound, g_driver, g_res, g_why>>
  /\ UNCHANGED <<fetchVars, collectVars, parseVars, pickVars>>
  /\ UNCHANGED <<coerceVars, darazVars, mbVars, idxVars, qsVars>>
  /\ UNCHANGED <<artVars, expVars>>

GrFinally ==
  /\ g_pc = "finally"
  /\ \E q \in QuitOutcomes :
       /\ g_driver' = q
       /\ IF Propagates(g_res, q)
            THEN g_res' = "raised" /\ g_pc' = "done"
            ELSE g_pc' = "frame" /\ UNCHANGED g_res
  /\ UNCHANGED <<g_genre, g_links, g_book, g_attempt, g_bound, g_row, g_rows,
                 g_why>>
  /\ UNCHANGED <<fetchVars, collectVars, parseVars, pickVars>>
  /\ UNCHANGED <<coerceVars, darazVars, mbVars, idxVars, qsVars>>
  /\ UNCHANGED <<artVars, expVars>>

\* The frame is built from all_rows after the browser is gone; return df
GrFrame ==
  /\ g_pc = "frame"
  /\ g_res' = "returned" /\ g_pc' = "done"
  /\ UNCHANGED <<g_genre, g_links, g_book, g_attempt, g_bound, g_row, g_rows,
                 g_driver, g_why>>
  /\ UNCHANGED <<fetchVars, collectVars, parseVars, pickVars>>
  /\ UNCHANGED <<coerceVars, darazVars, mbVars, idxVars, qsVars>>
  /\ UNCHANGED <<artVars, expVars>>

InitGr ==
  /\ g_pc = "make" /\ g_genre = 0 /\ g_links = 0 /\ g_book = 0
  /\ g_attempt = 0 /\ g_bound = "unbound" /\ g_row = "None" /\ g_rows = <<>>
  /\ g_driver = "none" /\ g_res = "running" /\ g_why = "none"
  /\ FetchIdle /\ CollectIdle /\ ParseIdle /\ PickIdle
  /\ CoerceIdle /\ DarazIdle /\ MbIdle /\ IdxIdle /\ QsIdle
  /\ ArtIdle /\ ExpIdle

NextGr == GrMakeDriver \/ GrGenre \/ GrAttempt \/ GrAppend \/ GrFinally \/ GrFrame

SpecGr == InitGr /\ [][NextGr]_vars

\* ------------------------------------------- the three browser functions
InitDrivers == InitDaraz \/ InitArt \/ InitGr

NextDrivers == NextDaraz \/ NextArt \/ NextGr

SpecDrivers == InitDrivers /\ [][NextDrivers]_vars

\* ------------------------------------------- ensure_columns and the exporters
\* A frame has its column names in order and, for every row, the value of
\* every column.  "NaN" is the missing value of pandas, "" the empty string.
ColsOf(frame) == {frame.cols[i] : i \in 1..Len(frame.cols)}

\* df.to_csv writes a missing value and an empty string as an empty field;
\* pd.read_csv reads an empty field as NaN.
ToCsvField(v) == IF v \in {"", "NaN", "None"} THEN "" ELSE v

FromCsvField(f) == IF f = "" THEN "NaN" ELSE f

ReadBack(frame) ==
  [cols |-> frame.cols,
   rows |-> [r \in 1..Len(frame.rows) |->
              [c \in ColsOf(frame) |-> FromCsvField(ToCsvField(frame.rows[r][c]))]]]

RECURSIVE AddMissing(_, _, _)
\* for c in columns: if c not in out.columns: out[c] = ""
AddMissing(out, columns, i) ==
  IF i > Len(columns) THEN out
  ELSE IF columns[i] \in ColsOf(out) THEN AddMissing(out, columns, i + 1)
  ELSE AddMissing(
         [cols |-> Append(out.cols, columns[i]),
          rows |-> [r \in 1..Len(out.rows) |->
                     [c \in ColsOf(out) \cup {columns[i]} |->
                        IF c = columns[i] THEN "" ELSE out.rows[r][c]]]],
         columns, i + 1)

\* A selection that turns the frame's own column order round.
Select_Reversed(out, columns) ==
  [cols |-> [i \in 1..Len(out.cols) |-> out.cols[Len(out.cols) + 1 - i]],
   rows |-> out.rows]

\* out[columns]
Select(out, columns) ==
  [cols |-> columns,
   rows |-> [r \in 1..Len(out.rows) |->
              [c \in {columns[i] : i \in 1..Len(columns)} |-> out.rows[r][c]]]]

ensure_columns(frame, columns) == Select(AddMissing(frame, columns, 1), columns)

\* base_cols of export_task4_pdf, expected of its main
base_cols ==
  <<"Title", "Price", "Seller", "Ratings", "DeliveryOptions", "ProductURL">>

\* cols_idx of export_task2_reports.main
cols_idx ==
  <<"Index Name", "High", "Low", "Current", "Change", "Change %",
    "LDCP", "Open", "Volume", "scraped_at", "source">>

\* "" if (pd.isna(val) or val is None) else str(val)
RenderCell(val) == IF val = "NaN" THEN "" ELSE val

\* The table of export_docx_table and export_pdf_table: the header and one
\* line of cell texts per row.
RenderTable(frame, columns) ==
  LET use_df == ensure_columns(frame, columns)
  IN  [raised |-> FALSE,
       table |-> [r \in 1..Len(use_df.rows) |->
                   [i \in 1..Len(columns) |-> RenderCell(use_df.rows[r][columns[i]])]]]

\* str(row["Title"]).strip(): the text of NaN is "nan"
TitleCell(val) == IF val = "NaN" THEN "nan" ELSE val

\* url_val = (row["ProductURL"] or "").strip(): NaN is a float that counts
\* as true, so `or` keeps it and .strip() raises AttributeError.
UrlRaises(val) == val = "NaN"

\* url_val.startswith(("http://", "https://")) ... else "Not available"
UrlCell(val) == IF val = "" THEN "Not available" ELSE val

Task4Cells(row) ==
  [i \in 1..Len(base_cols) |->
     CASE base_cols[i] = "Title" -> TitleCell(row["Title"])
       [] base_cols[i] = "ProductURL" -> UrlCell(row["ProductURL"])
       [] OTHER -> RenderCell(row[base_cols[i]])]

\* export_task4_pdf(df, path): the body rows without their "#" cell
RenderTask4(frame) ==
  LET use_df == ensure_columns(frame, base_cols)
  IN  IF \E r \in 1..Len(use_df.rows) : UrlRaises(use_df.rows[r]["ProductURL"])
        THEN [raised |-> TRUE, table |-> <<>>]
        ELSE [raised |-> FALSE,
              table |-> [r \in 1..Len(use_df.rows) |-> Task4Cells(use_df.rows[r])]]

\* The text of a ProductURL of the collector.
UrlText(url) ==
  CASE url = <<>> -> ""
    [] url = <<DarazBase, "/products/p1">> -> "https://www.daraz.pk/products/p1"
    [] OTHER -> "https://www.daraz.pk/products/p2"

\* The rows scrape_daraz_from_home writes to daraz_iphone15_listings.csv:
\* the items of a parsed page after the fallbacks.
DarazCsvRows ==
  { [FillNa(it) EXCEPT !.ProductURL = UrlText(it.ProductURL), !.Seller = s] :
      it \in {Item(c.title, Absolute(c.href)) : c \in {d \in Cards : d.title # ""}},
      s \in {"Not available", "Daraz Shop"} }

\* The rows collect_indices_from_dps writes to psx_indices.csv: Open and
\* Volume are always missing, the other numbers when the source lacks them.
PsxAbsent ==
  { {"Open", "Volume"}, {"Open", "Volume", "LDCP", "Change"},
    {"Open", "Volume", "LDCP", "High", "Low", "Current", "Change", "Change %"} }

PsxCsvRows ==
  { [c \in {cols_idx[i] : i \in 1..Len(cols_idx)} |->
       IF c \in A THEN "NaN"
       ELSE IF c = "Index Name" THEN "KSE100"
       ELSE IF c = "scraped_at" THEN "2025-09-06T18:15:30+05:00"
       ELSE IF c = "source" THEN "https://dps.psx.com.pk/indices"
       ELSE "1.5"] : A \in PsxAbsent }

\* Frames given to ensure_columns on its own: up to MaxExpCols different
\* columns in any order, some canonical and one that is not.
EnsureNames == {"Title", "ProductURL", "Seller", "scraped_at"}

EnsureCols ==
  { s \in SeqsUpTo(EnsureNames, MaxExpCols) :
      \A i, j \in 1..Len(s) : i # j => s[i] # s[j] }

EnsureFrames ==
  UNION { { [cols |-> s, rows |-> rs] :
              rs \in SeqsUpTo([{s[i] : i \in 1..Len(s)} -> {"NaN", "x"}], MaxExpRows) } :
          s \in EnsureCols }

CallEnsure ==
  /\ e_fn = "ensure_columns" /\ e_pc = "start"
  /\ e_out' = ensure_columns(e_df, e_cols)
  /\ e_pc' = "once"
  /\ UNCHANGED <<e_fn, e_df, e_cols, e_again>>
  /\ UNCHANGED <<fetchVars, collectVars, parseVars, pickVars>>
  /\ UNCHANGED <<coerceVars, darazVars, mbVars, idxVars, qsVars>>
  /\ UNCHANGED <<grVars, artVars>>

\* ensure_columns applied to its own result
CallEnsureAgain ==
  /\ e_fn = "ensure_columns" /\ e_pc = "once"
  /\ e_again' = ensure_columns(e_out, e_cols)
  /\ e_pc' = "done"
  /\ UNCHANGED <<e_fn, e_df, e_cols, e_out>>
  /\ UNCHANGED <<fetchVars, collectVars, parseVars, pickVars>>
  /\ UNCHANGED <<coerceVars, darazVars, mbVars, idxVars, qsVars>>
  /\ UNCHANGED <<grVars, artVars>>

Export(fn, out) ==
  /\ e_fn = fn /\ e_pc = "start"
  /\ e_out' = out
  /\ e_pc' = "done"
  /\ UNCHANGED <<e_fn, e_df, e_cols, e_again>>
  /\ UNCHANGED <<fetchVars, collectVars, parseVars, pickVars>>
  /\ UNCHANGED <<coerceVars, darazVars, mbVars, idxVars, qsVars>>
  /\ UNCHANGED <<grVars, artVars>>

ExportDocx == Export("export_docx_table", RenderTable(e_df, e_cols))

ExportPdf == Export("export_pdf_table", RenderTable(e_df, e_cols))

ExportTask4 == Export("export_task4_pdf", RenderTask4(e_df))

\* ensure_columns on a frame, or an exporter on a frame read back from the
\* CSV file its collector wrote.
InitExport ==
  /\ \/ /\ e_fn = "ensure_columns"
        /\ e_df \in EnsureFrames /\ e_cols = base_cols
     \/ /\ e_fn \in {"export_docx_table", "export_pdf_table"}
        /\ e_cols = cols_idx
        /\ \E rs \in SeqsUpTo(PsxCsvRows, MaxExpRows) :
             e_df = ReadBack([cols |-> cols_idx, rows |-> rs])
     \/ /\ e_fn = "export_task4_pdf"
        /\ e_cols = base_cols
        /\ \E rs \in SeqsUpTo(DarazCsvRows, MaxExpRows) :
             e_df = ReadBack([cols |-> ItemFields, rows |-> rs])
  /\ e_out = <<>> /\ e_again = <<>> /\ e_pc = "start"
  /\ FetchIdle /\ CollectIdle /\ ParseIdle /\ PickIdle
  /\ CoerceIdle /\ DarazIdle /\ MbIdle /\ IdxIdle /\ QsIdle
  /\ GrIdle /\ ArtIdle

NextExport ==
  CallEnsure \/ CallEnsureAgain \/ ExportDocx \/ ExportPdf \/ ExportTask4

SpecExport == InitExport /\ [][NextExport]_vars

\* ================================================================== claims

\* C1: get_html issues no further GET for a URL after a response whose status
\* is a 4xx/5xx other than 403, 429, 502, 503, 504.
C1_NoRetryOnOtherStatus ==
  [][(fpc = "loop" /\ resp.kind = "http" /\ resp.status >= 400
        /\ resp.status \notin RetryStatuses) => gets' = gets]_vars

\* C2: get_html issues at most `retries` GETs; a 200 response makes it return
\* that response's body at once, with no further GET; it raises exactly when
\* all `retries` attempts were used and none was answered with 200.
C2_BoundedFetch ==
  /\ gets <= retries
  /\ (resp.kind = "http" /\ resp.status = 200) => fpc = "returned"
  /\ fpc = "returned" => resp.kind = "http" /\ resp.status = 200 /\ html = resp.body
  /\ fpc = "raised" => gets = retries /\ ~(resp.kind = "http" /\ resp.status = 200)
  /\ fpc \in {"returned", "raised"} => ~ENABLED GetAttempt
  /\ fpc = "loop" => ENABLED NextFetch

C2_Witness ==
  /\ fpc = "returned" /\ retries = 3 /\ gets = 3 /\ last_err.kind = "Timeout"

C4_FailureContained ==
  [][(pc = "loop" /\ (fpc = "raised" \/ (fpc = "returned" /\ ~html.ok))) =>
        /\ collected' = collected
        /\ cres' = "running"
        /\ warned' = Append(warned, idx)
        /\ IF idx < Len(BASE_URLS)
             THEN pc' = "loop" /\ idx' = idx + 1 /\ fpc' = "loop" /\ gets' = 0
             ELSE pc' = "finalize"]_vars

C4_Witness ==
  pc = "finalize" /\ warned = <<2>> /\ Len(collected) >= 1 /\ fpc = "raised"

\* C5: no two records of the returned RecordSet have the same URL.
C5_ResultUniqueUrls ==
  cres = "returned" =>
    \A i, j \in 1..Len(df) : i # j => df[i].url # df[j].url

\* C6: the result has min(n, accumulated) rows and is the prefix of the
\* accumulated buffer, which is in endpoint order; when the first endpoint
\* failed and the second gave 5 rows, n = 3 gives 3 rows of the second endpoint.
C6_PrefixOfBuffer ==
  pc = "done" =>
    /\ Len(df) = Min(n, Len(collected))
    /\ \A i \in 1..Len(df) :
         df[i].url = collected[i].url /\ df[i].headline = collected[i].headline
    /\ Len(origin) = Len(collected)
    /\ \A i, j \in 1..Len(origin) : i < j => origin[i] <= origin[j]
    /\ (n = 3 /\ warned = <<1>> /\ Len(collected) = 5) =>
         /\ Len(df) = 3 /\ cres = "returned"
         /\ \A i \in 1..3 : origin[i] = 2

C6_Witness ==
  /\ pc = "done" /\ n = 3 /\ warned = <<1>> /\ Len(collected) = 5
  /\ Len(df) = 3 /\ df[3].url = 3

\* C7: get_html is called for the endpoints in the order of BASE_URLS, and for
\* none once the buffer holds at least n records.
C7_OrderedEarlyStop ==
  /\ \A i \in 1..Len(called) : called[i].endpoint = i /\ called[i].buffered < n
  /\ Len(called) = idx
  /\ Len(collected) >= n => pc # "loop"

C7_Witness ==
  pc = "done" /\ idx = 1 /\ Len(collected) >= n /\ called = <<[endpoint |-> 1, buffered |-> 0]>>

\* C8: the selector raises when there is no candidate or every candidate has
\* score zero, and a candidate it returns has a score above zero.
C8_NoMatchFails ==
  k_pc = "done" =>
    /\ (tables = <<>> \/ \A i \in 1..Len(tables) : Score(tables[i]) = 0) => picked.raised
    /\ ~picked.raised => Score(tables[picked.best]) > 0

\* C9 (as claimed): the returned candidate has the maximal score of all
\* candidates and is the first of that score.  Stated for the returns of a
\* candidate with a score above zero, so that a violation does not rest on
\* the return of a zero-score candidate (C8).
C9_MaxOfAll ==
  (k_pc = "done" /\ ~picked.raised /\ Score(tables[picked.best]) > 0) =>
    /\ \A j \in 1..Len(tables) : Score(tables[j]) <= Score(tables[picked.best])
    /\ \A j \in 1..(picked.best - 1) : Score(tables[j]) < Score(tables[picked.best])

\* C9 (amended): the returned candidate has at least one row, its score is
\* maximal among the candidates with at least one row, and it is the first of
\* these with that score; [Index, High, Low] is chosen over [Name, Value].
C9_MaxOfNonEmpty ==
  k_pc = "done" =>
    /\ picked.raised <=> (\A j \in 1..Len(tables) : tables[j].nrows = 0)
    /\ ~picked.raised =>
         /\ picked.best \in 1..Len(tables)
         /\ tables[picked.best].nrows > 0
         /\ \A j \in 1..Len(tables) :
              tables[j].nrows > 0 => Score(tables[j]) <= Score(tables[picked.best])
         /\ \A j \in 1..(picked.best - 1) :
              tables[j].nrows > 0 => Score(tables[j]) < Score(tables[picked.best])
    /\ tables = <<ExampleA, ExampleB>> => picked.best = 1
    /\ tables = <<ExampleB, ExampleA>> => picked.best = 2

C9_Witness ==
  /\ k_pc = "done" /\ Len(tables) = 2 /\ picked.best = 1
  /\ tables[1].nrows > 0 /\ tables[2].nrows > 0 /\ tables[1] # tables[2]
  /\ Score(tables[1]) = Score(tables[2]) /\ Score(tables[1]) > 0

\* C10: the deduplicated rows are the rows whose URL did not occur earlier, in
\* their input order, each with the fields of that first occurrence.
C10_FirstOccurrences ==
  p_pc = "done" =>
    LET keep == {i \in 1..Len(p_rows) :
                   \A j \in 1..(i - 1) : p_rows[j].url # p_rows[i].url}
        nth(k) == CHOOSE i \in keep : Cardinality({j \in keep : j <= i}) = k
    IN /\ Len(p_unique) = Cardinality(keep)
       /\ Len(p_unique) <= Len(p_rows)
       /\ \A k \in 1..Len(p_unique) : p_unique[k] = p_rows[nth(k)]

C10_Witness ==
  /\ p_pc = "done" /\ Len(p_rows) = 3 /\ Len(p_unique) = 2
  /\ p_rows[1].url = p_rows[3].url /\ p_rows[1].headline # p_rows[3].headline
  /\ p_unique[1] = p_rows[1] /\ p_unique[2] = p_rows[2]

\* C18: when get_html raises after its attempts are used up, the error names
\* the cause of the last failed attempt, whether it was a timeout, a network
\* error or an HTTP error status (403/429/502/503/504 included).
C18_CarriesLastCause ==
  (fpc = "raised" /\ gets >= 1 /\ (resp.kind = "http" => resp.status >= 400)) =>
    last_err = IF resp.kind = "http" THEN HTTPError(resp.status)
               ELSE NetErr(resp.kind)

\* C15: each coercion function returns, for every string, either a finite
\* number or the Absent marker.
C15_FiniteOrAbsent ==
  c_fn \in {"_to_float", "_to_percent", "parse_int", "parse_float"} =>
    c_out.kind \in {"NA", "num"}

\* C16: _to_float("1,234.50") = 1234.5, _to_percent("-3.2%") = -3.2,
\* parse_int("12,000") = 12000, _to_float("--") = Absent and
\* _to_float("") = Absent.
C16_Examples ==
  /\ (c_fn = "_to_float" /\ c_text = <<"1", ",", "2", "3", "4", ".", "5", "0">>) =>
       c_out = [kind |-> "num", type |-> "float", neg |-> FALSE,
                mant |-> 12345, exp |-> -1]
  /\ (c_fn = "_to_percent" /\ c_text = <<"-", "3", ".", "2", "%">>) =>
       c_out = [kind |-> "num", type |-> "float", neg |-> TRUE,
                mant |-> 32, exp |-> -1]
  /\ (c_fn = "parse_int" /\ c_text = <<"1", "2", ",", "0", "0", "0">>) =>
       c_out = [kind |-> "num", type |-> "int", neg |-> FALSE,
                mant |-> 12000, exp |-> 0]
  /\ (c_fn = "_to_float" /\ c_text \in {<<"-", "-">>, <<>>}) => c_out = NA

C16_Witness ==
  /\ c_fn = "parse_int" /\ c_text = <<"1", "2", ",", "0", "0", "0">> /\ c_out.mant = 12000

\* C17: for a text made of one formatted number (optional sign, digits with
\* optional thousands separators, optional decimals) and a closing %,
\* _to_percent returns what _to_float returns for the text before the %; for
\* a text in which no % has a digit before it, it returns _to_float of the
\* text.
C17_PercentIsWholeNumber ==
  LET L == Len(c_text)
      body == SubSeq(c_text, 1, L - 1)
      i0 == IF body # <<>> /\ body[1] \in {"+", "-"} THEN 2 ELSE 1
      iEnd == RunEnd(body, i0, Digits \cup {","})
      hasDot == iEnd < Len(body) /\ body[iEnd + 1] = "."
      fEnd == IF hasDot THEN RunEnd(body, iEnd + 2, Digits) ELSE iEnd
      \* no separator, or one before every group of three digits
      grouped ==
        \/ \A k \in i0..iEnd : body[k] # ","
        \/ \A k \in i0..iEnd : body[k] = "," <=> (iEnd - k) % 4 = 3
      formatted ==
        /\ L >= 2 /\ c_text[L] = "%"
        /\ iEnd >= i0 /\ body[i0] \in Digits /\ grouped
        /\ hasDot => fEnd > iEnd + 1
        /\ fEnd = Len(body)
      noNumberBeforePercent ==
        \A p \in 1..L :
          c_text[p] = "%" =>
            \A q \in 1..(p - 1) :
              c_text[q] \in Digits => \E r \in (q + 1)..(p - 1) : c_text[r] \notin Whitespace
  IN  c_fn = "_to_percent" =>
        /\ formatted => c_out = to_float(body)
        /\ noNumberBeforePercent => c_out = to_float(c_text)

\* C11: product cards with an empty ProductURL are never dropped as
\* duplicates: parse_results_page_html returns one item for every titled card
\* without a link, and the page loop of scrape_daraz_from_home drops no item
\* with an empty ProductURL as a duplicate.
C11_KeylessRetained ==
  LET Keyless == {i \in 1..Len(z_items) : z_items[i].ProductURL = <<>>}
      Linkless == {i \in 1..Len(z_html) :
                     z_html[i].href = <<>> /\ z_html[i].title # ""}
  IN  /\ z_pc = "parsed" => Cardinality(Keyless) = Cardinality(Linkless)
      /\ \A it \in z_skipped : it.ProductURL # <<>>

C11_Witness ==
  /\ z_pc = "done" /\ z_res = "returned" /\ Len(z_rows) = 2
  /\ z_rows[1] = z_rows[2] /\ z_rows[1].ProductURL = <<>>

\* C12: a result of collect_mainboard_from_market_summary has the same
\* columns whether it holds rows or not: the ten columns of a result with
\* rows.
C12_SameColumnsWhenEmpty ==
  mb_pc = "done" =>
    mb_df.columns = MainboardCols \o <<"scraped_at", "source">>

C14_DerivedLDCP ==
  x_pc = "done" =>
    \A r \in 1..Len(x_df.rows) :
      LET cur == x_df.rows[r][<<"Current">>]
          chg == x_df.rows[r][<<"Change">>]
          ldcp == x_df.rows[r][<<"LDCP">>]
          e == Min(Min(cur.exp, chg.exp), ldcp.exp)
          S(v) == (IF v.neg THEN -1 ELSE 1) * v.mant * Pow10(v.exp - e)
      IN  /\ (cur.kind = "num" /\ chg.kind = "num") =>
               ldcp.kind = "num" /\ S(ldcp) = S(cur) - S(chg)
          /\ (cur = NA \/ chg = NA) => ldcp = NA
          /\ cur = MapFloat(CellOf(x_raw, r, <<"Current">>))
          /\ chg = MapFloat(CellOf(x_raw, r, <<"Change">>))

C14_Witness ==
  /\ x_pc = "done"
  /\ x_raw.cols = << <<"Current">>, <<"Change">> >> /\ Len(x_raw.rows) = 1
  /\ x_raw.rows[1][1].text = <<"1", "0", "0", ".", "0">> /\ x_raw.rows[1][2].text = <<"-", "-">>
  /\ x_df.rows[1][<<"Current">>] =
       [kind |-> "num", type |-> "float", neg |-> FALSE, mant |-> 1, exp |-> 2]
  /\ x_df.rows[1][<<"Change">>] = NA
  /\ x_df.rows[1][<<"LDCP">>] = NA

\* C19: fill_countries_parallel does not wait for unfinished fetches: once
\* the budget has passed and it has stopped collecting results, it can return
\* at once, whether or not fetches are still running or queued.
C19_ReturnsWithoutWaiting ==
  (q_pc = "exiting" /\ q_now >= 1) => ENABLED QsReturn

\* C20: after fill_countries_parallel a row whose fetch failed, met a status
\* other than 200, or was not collected before the loop was left has no
\* Country; in the final frame every row has a Country and a Region, and a
\* row without Country has Country "Unknown" and Region "Unknown".
C20_EveryRowHasCountryAndRegion ==
  /\ q_pc \in {"returned", "final"} =>
       \A i \in 1..Len(q_fut) :
         (q_fut[i].how \in {"exception", "non200"} \/ i \notin q_yielded)
           => q_rows[i].Country = "None"
  /\ q_pc = "final" =>
       /\ Len(q_df) = Len(q_rows)
       /\ \A i \in 1..Len(q_df) :
            /\ q_df[i].Country \in {"Unknown", "China", "Japan"}
            /\ q_df[i].Region \in {"Unknown", "Asia"}
            /\ q_rows[i].Country = "None" =>
                 q_df[i].Country = "Unknown" /\ q_df[i].Region = "Unknown"
            /\ q_rows[i].Country # "None" =>
                 q_df[i].Country = q_rows[i].Country

C20_Witness ==
  /\ q_pc = "final" /\ Len(q_df) = 3 /\ q_now = 2
  /\ q_fut[1].how = "exception" /\ 1 \in q_yielded
  /\ q_fut[2].res = "Mainland China" /\ 2 \in q_yielded
  /\ q_df[2].Country = "China" /\ q_df[2].Region = "Asia"
  /\ 3 \notin q_yielded /\ q_fut[3].res = "Mainland China"
  /\ q_df[1].Country = "Unknown" /\ q_df[3].Country = "Unknown"
  /\ q_df[3].Region = "Unknown"

\* C21: in fill_countries_parallel a row changes only in the step in which
\* the fetch submitted with that row's own URL is handed out by as_completed,
\* which happens once per fetch, and the Country written is the normalized
\* country of that URL's page; so no two fetches write the same row.
RowWrittenOnce(i) ==
  /\ i \notin q_yielded /\ q_yielded' = q_yielded \cup {i}
  /\ SubmittedUrl(i) = q_rows[i].URL
  /\ q_rows'[i].Country = normalize_country(PageCountry(q_rows[i].URL))
  /\ \A j \in 1..Len(q_rows) : j # i => q_rows'[j] = q_rows[j]

C21_OneFetchPerRow ==
  [][\A i \in 1..Len(q_rows) :
       q_rows'[i] # q_rows[i] => RowWrittenOnce(i)]_vars

C21_Witness ==
  /\ q_pc = "collect" /\ Len(q_rows) = 3
  /\ q_yielded = {2, 3} /\ q_fut[1].st = "running"
  /\ q_rows[2].Country = "China" /\ q_rows[3].Country = "China"
  /\ q_rows[1].Country = "None"

\* C22: once fill_countries_parallel has left the loop over as_completed (by
\* the elapsed-time break, by FuturesTimeout or at the last future) no row
\* changes any more, whatever fetches finish afterwards.
C22_NoWriteAfterStop ==
  [][(q_pc \in {"exiting", "returned", "final"}) => q_rows' = q_rows]_vars

C22_Witness ==
  /\ q_pc = "returned" /\ q_now >= 1
  /\ \E i \in 1..Len(q_fut) :
       /\ i \notin q_yielded /\ q_fut[i].res = "Mainland China"
       /\ q_rows[i].Country = "None"
  /\ \E j \in q_yielded : q_rows[j].Country = "Japan"

\* C30: a step of fill_countries_parallel keeps the number and order of the
\* rows and every University, OverallScore, SubjectRanking and URL; a fetch
\* that is handed out with no country leaves the Country of its row as it was.
OnlyCountryStep ==
  /\ Len(q_rows') = Len(q_rows)
  /\ \A i \in 1..Len(q_rows) :
       /\ q_rows'[i].University = q_rows[i].University
       /\ q_rows'[i].OverallScore = q_rows[i].OverallScore
       /\ q_rows'[i].SubjectRanking = q_rows[i].SubjectRanking
       /\ q_rows'[i].URL = q_rows[i].URL
  /\ \A k \in q_yielded' \ q_yielded :
       q_fut[k].res = "None" => q_rows'[k].Country = q_rows[k].Country

C30_OnlyCountryChanges == [][OnlyCountryStep]_vars

C30_Witness ==
  /\ q_pc = "returned" /\ q_yielded = {1, 2, 3}
  /\ q_fut[1].how = "non200" /\ q_rows[1].Country = "None"
  /\ q_fut[2].how = "page" /\ q_fut[2].res = "None"
  /\ q_rows[2].Country = "None"
  /\ q_rows[3] = [UniRow(3) EXCEPT !.Country = "China"]

\* C26: the score of every candidate table is the number of the expected
\* tokens index, high, low, current, change that occur in at least one of its
\* lowered header labels, each token counted once however many labels hold it.
ExpectedTokens == {"index", "high", "low", "current", "change"}

TokensFound(t) ==
  { token \in ExpectedTokens :
      \E i \in 1..Len(t.cols) : Contains(LowerLabel(t.cols[i]), token) }

C26_ScoreCountsTokensOnce ==
  k_pc = "done" =>
    \A i \in 1..Len(tables) : Score(tables[i]) = Cardinality(TokensFound(tables[i]))

\* C27: the page loop of scrape_daraz_from_home ends in every run; at every
\* point at most MAX_PAGES result pages have been parsed, the loop is not
\* running after a next-page click failed, and for n_min >= 1 no more than
\* n_min rows are held.
PageLoopBounded ==
  /\ z_parsed <= MAX_PAGES
  /\ z_moved = "no" => z_pc # "loop"
  /\ z_nmin >= 1 => Len(z_rows) <= z_nmin

C27_PageLoopTerminates ==
  /\ []PageLoopBounded
  /\ <>(z_pc \notin {"build", "search", "loop"})

C27_Witness ==
  /\ z_pc = "enrich" /\ z_parsed = MAX_PAGES /\ z_page = MAX_PAGES + 1
  /\ z_moved = "yes" /\ z_nmin = 2 /\ Len(z_rows) = 1

\* C28: at every point of scrape_daraz_from_home no two collected rows have
\* the same non-empty ProductURL.
C28_NoDuplicateUrl ==
  \A i, j \in 1..Len(z_rows) :
    (i # j /\ z_rows[i].ProductURL # <<>>)
      => z_rows[i].ProductURL # z_rows[j].ProductURL

C28_Witness ==
  /\ z_parsed = 2 /\ Len(z_rows) = 2 /\ z_skipped # {}
  /\ z_rows[1].ProductURL = <<DarazBase, "/products/p1">>
  /\ z_rows[2].ProductURL = <<DarazBase, "/products/p2">>

\* C23: in scrape_goodreads no failure of one book ends the run: an exception
\* leaves the function only for the driver or for a genre's list page, and a
\* run that returns has gone through every book of every genre.
C23_BookFailureContained ==
  /\ g_why # "book"
  /\ g_res = "returned" => g_genre = Len(GENRES) + 1

\* C29: in scrape_daraz_from_home, scrape_article_unis and scrape_goodreads
\* a driver that was built is quit (or its quit has failed) before the
\* function returns or passes its exception on, and a failed quit does not
\* turn a run that had no exception into one that raises.
QuitBeforeExit(driver, res) ==
  res \in {"returned", "raised"} => driver # "open"

QuitFailureKept(driver, q, res, r) ==
  (driver = "open" /\ q = "quit failed") => (r = "raised" <=> res = "raising")

DriverStep ==
  /\ QuitBeforeExit(z_driver', z_res') /\ QuitFailureKept(z_driver, z_driver', z_res, z_res')
  /\ QuitBeforeExit(a_driver', a_res') /\ QuitFailureKept(a_driver, a_driver', a_res, a_res')
  /\ QuitBeforeExit(g_driver', g_res') /\ QuitFailureKept(g_driver, g_driver', g_res, g_res')

C29_DriverAlwaysQuit == [][DriverStep]_vars

C29_Witness ==
  /\ g_driver = "quit failed" /\ g_res = "raised" /\ g_why = "genre"
  /\ Len(g_rows) = 2

\* C24: export_docx_table, export_pdf_table and export_task4_pdf complete on
\* every frame read back from the CSV file of their collector, render every
\* declared column, and render an empty cell for every value that reads back
\* as missing, a ProductURL the collector wrote as empty included.
C24_ExportersRenderAbsent ==
  (e_pc = "done" /\ e_fn # "ensure_columns") =>
    /\ ~e_out.raised
    /\ Len(e_out.table) = Len(e_df.rows)
    /\ \A r \in 1..Len(e_df.rows) :
         /\ Len(e_out.table[r]) = Len(e_cols)
         /\ \A i \in 1..Len(e_cols) :
              e_df.rows[r][e_cols[i]] = "NaN" => e_out.table[r][i] = ""

\* C25: ensure_columns applied to its own result, with the same canonical
\* columns, returns that result unchanged.
C25_EnsureIdempotent ==
  (e_fn = "ensure_columns" /\ e_pc = "done") =>
    /\ e_again = e_out
    /\ e_out.cols = e_cols

C25_Witness ==
  /\ e_fn = "ensure_columns" /\ e_pc = "done"
  /\ e_df.cols = <<"scraped_at", "ProductURL", "Title">>
  /\ Len(e_df.rows) = 1 /\ e_df.rows[1]["ProductURL"] = "NaN"
  /\ e_out.rows[1]["Price"] = "" /\ e_out.rows[1]["ProductURL"] = "NaN"
  /\ e_again.cols = base_cols

====
